---- MODULE Spec2Model ----
(***************************************************************************)
(* Place clustering (utils/locationUtils.ts, getMostVisitedPlaces),        *)
(* incremental merge of new KMZ points (services/updateService.ts,         *)
(* UpdateService.updateWithNewKMZFiles / mergeEntries / generateUniqueId / *)
(* createBackup) and the automatic load from Firebase Storage              *)
(* (services/autoLoadService.ts, AutoLoadService.loadFromFirebaseStorage). *)
(*                                                                         *)
(* Numbers.  A JavaScript number is modelled as an exact fraction          *)
(* [num, den] with den > 0, kept in lowest terms; null is the record       *)
(* NULL, whose den is 0.  Coordinates are counted in grid steps of 5 m     *)
(* from an origin on the equator, so 0.1 km = 20 steps, 0.2 km = 40 steps  *)
(* and 0.5 km = 100 steps.  At these distances the Haversine distance is   *)
(* the Euclidean one to better than 1e-9, and the model compares squares   *)
(* of distances because no square root is available.                       *)
(*                                                                         *)
(* Text.  A string is a sequence of one-character strings.                 *)
(***************************************************************************)
EXTENDS Integers, Sequences, FiniteSets, TLC

VARIABLES
    \* getMostVisitedPlaces: parameters
    history, limit, excludeHomeGeofence, excludeTopN,
    \* getMostVisitedPlaces: locals and position
    pc, cursor, placeMap, sortedPlaces, placesToExclude, geofenceCenters, result,
    \* UpdateService.updateWithNewKMZFiles: parameters
    newKMZFiles, existingHistory,
    \* UpdateService.updateWithNewKMZFiles: locals and position
    upc, fileIndex, updatedHistory, processedEntries, updateResult,
    \* the number of calls of updateWithNewKMZFiles so far
    calls,
    \* UpdateService.generateUniqueId and mergeEntries called on their own:
    \* arguments, results and position
    argFileName, argGeoData, mergeHistory, dpc, uniqueId, mergeResult,
    \* AutoLoadService: the configuration, the two Firestore collections, the
    \* runs of loadFromFirebaseStorage, and the number of failed calls so far
    db, processedFiles, locations, runs, failures,
    \* UpdateService.createBackup: the browser's localStorage and clock, the
    \* number of calls so far, and the argument and the result of the last call
    localStorage, clock, backupCalls, lastBackup

placeVars == <<history, limit, excludeHomeGeofence, excludeTopN,
               pc, cursor, placeMap, sortedPlaces, placesToExclude,
               geofenceCenters, result>>

updateVars == <<newKMZFiles, existingHistory, upc, fileIndex, updatedHistory,
                processedEntries, updateResult, calls>>

dedupVars == <<argFileName, argGeoData, mergeHistory, dpc, uniqueId, mergeResult>>

loadVars == <<db, processedFiles, locations, runs, failures>>

backupVars == <<localStorage, clock, backupCalls, lastBackup>>

vars == <<placeVars, updateVars, dedupVars, loadVars, backupVars>>

\* what a step of getMostVisitedPlaces, of updateWithNewKMZFiles, of the
\* dedup functions, of AutoLoadService and of createBackup leaves alone
notPlaceVars == <<updateVars, dedupVars, loadVars, backupVars>>
notUpdateVars == <<placeVars, dedupVars, loadVars, backupVars>>
notDedupVars == <<placeVars, updateVars, loadVars, backupVars>>
notLoadVars == <<placeVars, updateVars, dedupVars, backupVars>>
notBackupVars == <<placeVars, updateVars, dedupVars, loadVars>>

-----------------------------------------------------------------------------
(* Bounds of the model *)

MaxHist == 3
MaxClusterHist == 5
MaxTopN == 2
MaxLimit == 3
MaxJoinHist == 4
MaxOrderHist == 6
MaxGeofenceHist == 4
MaxCenters == 3
MaxRuns == 2
MaxFailures == 1
MaxBackupCalls == 6
MaxClock == 6

-----------------------------------------------------------------------------
(* Numbers *)

NULL == [num |-> 0, den |-> 0]

Abs(n) == IF n < 0 THEN -n ELSE n

RECURSIVE GCD(_, _)
GCD(a, b) == IF b = 0 THEN a ELSE GCD(b, a % b)

Rat(n, d) ==
    LET g == GCD(Abs(n), d)
    IN  [num |-> n \div g, den |-> d \div g]

Num(n) == [num |-> n, den |-> 1]

RAdd(a, b) == Rat(a.num * b.den + b.num * a.den, a.den * b.den)
RSub(a, b) == Rat(a.num * b.den - b.num * a.den, a.den * b.den)
RMul(a, b) == Rat(a.num * b.num, a.den * b.den)
RDivInt(a, n) == Rat(a.num, a.den * n)
RLeq(a, b) == a.num * b.den <= b.num * a.den

RECURSIVE RSum(_)
RSum(s) == IF s = <<>> THEN Num(0) ELSE RAdd(s[1], RSum(Tail(s)))

-----------------------------------------------------------------------------
(* calculateDistance: the square of the distance, in grid steps squared *)

calculateDistance(lat1, lon1, lat2, lon2) ==
    LET dLat == RSub(lat2, lat1)
        dLon == RSub(lon2, lon1)
    IN  RAdd(RMul(dLat, dLat), RMul(dLon, dLon))

\* distance <= radius, radius a whole number of grid steps
Within(distance, radius) == RLeq(distance, Num(radius * radius))

distanceThreshold == 20
geofenceRadius == 40
mergeRadius == 100

-----------------------------------------------------------------------------
(* Text *)

Space == " "

\* the character code of the characters the model's texts use; "U+20AC" is
\* one character outside Latin-1
CharCode(c) ==
    CASE c = " " -> 32 [] c = "-" -> 45 [] c = "." -> 46
      [] c = "0" -> 48 [] c = "1" -> 49 [] c = "2" -> 50 [] c = "3" -> 51
      [] c = "4" -> 52 [] c = "5" -> 53 [] c = "6" -> 54 [] c = "7" -> 55
      [] c = "8" -> 56 [] c = "9" -> 57 [] c = ":" -> 58
      [] c = "J" -> 74 [] c = "O" -> 79 [] c = "_" -> 95
      [] c = "a" -> 97 [] c = "b" -> 98 [] c = "c" -> 99 [] c = "d" -> 100
      [] c = "e" -> 101 [] c = "k" -> 107 [] c = "l" -> 108 [] c = "m" -> 109
      [] c = "n" -> 110 [] c = "r" -> 114 [] c = "s" -> 115 [] c = "t" -> 116
      [] c = "u" -> 117 [] c = "v" -> 118 [] c = "z" -> 122
      [] c = "U+20AC" -> 8364

\* String.prototype.toLowerCase, on the letters the model's texts use
LowerChar(c) ==
    CASE c = "C" -> "c"
      [] c = "A" -> "a"
      [] c = "P" -> "p"
      [] OTHER -> c

toLowerCase(s) == [i \in 1..Len(s) |-> LowerChar(s[i])]

RECURSIVE trimStart(_)
trimStart(s) ==
    IF s # <<>> /\ Head(s) = Space THEN trimStart(Tail(s)) ELSE s

RECURSIVE trimEnd(_)
trimEnd(s) ==
    IF s # <<>> /\ s[Len(s)] = Space THEN trimEnd(SubSeq(s, 1, Len(s) - 1)) ELSE s

trim(s) == trimEnd(trimStart(s))

\* a || b on strings: the empty string is falsy
OrElse(s, dflt) == IF s = <<>> THEN dflt ELSE s

\* s < t in the order of Array.prototype.sort without a comparator (by code unit)
RECURSIVE TextLess(_, _)
TextLess(s, t) ==
    IF t = <<>> THEN FALSE
    ELSE IF s = <<>> THEN TRUE
    ELSE IF Head(s) = Head(t) THEN TextLess(Tail(s), Tail(t))
    ELSE CharCode(Head(s)) < CharCode(Head(t))

\* the texts of a set in ascending order
RECURSIVE SortTexts(_)
SortTexts(S) ==
    IF S = {} THEN <<>>
    ELSE LET least == CHOOSE s \in S : \A t \in S : ~TextLess(t, s)
         IN  <<least>> \o SortTexts(S \ {least})

IsDigit(c) == c \in {"0", "1", "2", "3", "4", "5", "6", "7", "8", "9"}

\* /^\d{4}-\d{2}-\d{2}$/.test(s)
IsIsoDate(s) ==
    /\ Len(s) = 10
    /\ \A i \in {1, 2, 3, 4, 6, 7, 9, 10} : IsDigit(s[i])
    /\ s[5] = "-"
    /\ s[8] = "-"

\* /^\d{2}:\d{2}$/.test(s)
IsClockTime(s) ==
    /\ Len(s) = 5
    /\ \A i \in {1, 2, 4, 5} : IsDigit(s[i])
    /\ s[3] = ":"

Unknown == <<"u", "n", "k", "n", "o", "w", "n">>
UbicacionDesconocida == <<"U", "b", "i", "c", "a", "c", "i", "o", "n", " ",
                          "d", "e", "s", "c", "o", "n", "o", "c", "i", "d", "a">>

-----------------------------------------------------------------------------
(* History entries (types.ts: HistoryEntry, GeoData).  The fields timestamp, *)
(* source and preview are never read by either engine and are left out.     *)

GeoData(date, time, location, latitude, longitude) ==
    [date |-> date, time |-> time, location |-> location,
     latitude |-> latitude, longitude |-> longitude]

HistoryEntry(id, data) == [id |-> id, data |-> data]

\* entry.data.latitude !== null && entry.data.longitude !== null
HasCoords(e) == e.data.latitude # NULL /\ e.data.longitude # NULL

-----------------------------------------------------------------------------
(* getMostVisitedPlaces: grouping.  A group holds the positions in history  *)
(* of its entries (the entries are objects; two equal entries at different  *)
(* positions are different objects).  placeMap is a JavaScript Map: a       *)
(* sequence of [key, entries] in insertion order with no key twice.         *)

Positions(h) == [i \in 1..Len(h) |-> i]

entriesWithCoords(h) == SelectSeq(Positions(h), LAMBDA i : HasCoords(h[i]))
entriesWithoutCoords(h) == SelectSeq(Positions(h), LAMBDA i : ~HasCoords(h[i]))

\* the two loops of lines 72 and 110, one after the other
ProcessingOrder(h) == entriesWithCoords(h) \o entriesWithoutCoords(h)

\* among the given positions, those whose entry has coordinates
coordsEntries(h, entries) == SelectSeq(entries, LAMBDA i : HasCoords(h[i]))

Latitudes(h, entries) == [k \in 1..Len(entries) |-> h[entries[k]].data.latitude]
Longitudes(h, entries) == [k \in 1..Len(entries) |-> h[entries[k]].data.longitude]

\* coordsEntries.reduce((sum, e) => sum + e.data.latitude, 0) / coordsEntries.length
avgLat(h, ce) == RDivInt(RSum(Latitudes(h, ce)), Len(ce))
avgLon(h, ce) == RDivInt(RSum(Longitudes(h, ce)), Len(ce))

\* the test of lines 80-94 for one group
GroupAccepts(h, group, lat, lon) ==
    LET ce == coordsEntries(h, group.entries)
    IN  /\ Len(ce) # 0
        /\ Within(calculateDistance(lat, lon, avgLat(h, ce), avgLon(h, ce)),
                  distanceThreshold)

\* lines 78-100 with foundGroup never set
FoundGroup_Never(h, map, lat, lon) == 0

\* lines 78-100 choosing, among the groups that accept the point, the one
\* with the nearest centroid
FoundGroup_Nearest(h, map, lat, lon) ==
    LET hits == {g \in 1..Len(map) : GroupAccepts(h, map[g], lat, lon)}
        Dist(g) == LET ce == coordsEntries(h, map[g].entries)
                   IN  calculateDistance(lat, lon, avgLat(h, ce), avgLon(h, ce))
        nearest == {g \in hits : \A g2 \in hits : RLeq(Dist(g), Dist(g2))}
    IN  IF hits = {} THEN 0 ELSE CHOOSE g \in nearest : \A g2 \in nearest : g <= g2

\* the first group, in Map order, that accepts the point; 0 when none does
FoundGroup(h, map, lat, lon) ==
    LET hits == {g \in 1..Len(map) : GroupAccepts(h, map[g], lat, lon)}
    IN  IF hits = {} THEN 0 ELSE CHOOSE g \in hits : \A g2 \in hits : g <= g2

\* `${lat.toFixed(6)},${lon.toFixed(6)}`: two grid points have the same six
\* decimals exactly when they are the same grid point (a step is 0.000045 deg)
CoordKey(lat, lon) == [kind |-> "coords", lat |-> lat, lon |-> lon, name |-> <<>>]

\* `name:${locationName}`
NameKey(locationName) == [kind |-> "name", lat |-> NULL, lon |-> NULL, name |-> locationName]

\* Map.prototype.get: the position of the key in the map, 0 when absent
MapIndex(map, key) ==
    IF \E g \in 1..Len(map) : map[g].key = key
    THEN CHOOSE g \in 1..Len(map) : map[g].key = key
    ELSE 0

\* Map.prototype.set: a present key keeps its place and gets the new value
MapSet(map, key, value) ==
    LET g == MapIndex(map, key)
    IN  IF g # 0
        THEN [map EXCEPT ![g] = [key |-> key, entries |-> value]]
        ELSE Append(map, [key |-> key, entries |-> value])

\* lines 72-107, one iteration: the entry at position i has coordinates
AddWithCoords(h, map, i) ==
    LET lat == h[i].data.latitude
        lon == h[i].data.longitude
        g == FoundGroup(h, map, lat, lon)
    IN  IF g # 0
        THEN [map EXCEPT ![g].entries = Append(@, i)]
        ELSE MapSet(map, CoordKey(lat, lon), <<i>>)

\* lines 110-118 with the label taken as it is written
AddWithoutCoords_RawLabel(h, map, i) ==
    LET locationName == OrElse(h[i].data.location, Unknown)
        g == MapIndex(map, NameKey(locationName))
    IN  IF g # 0
        THEN [map EXCEPT ![g].entries = Append(@, i)]
        ELSE MapSet(map, NameKey(locationName), <<i>>)

\* lines 110-118, one iteration: the entry at position i lacks a coordinate
AddWithoutCoords(h, map, i) ==
    LET locationName == OrElse(toLowerCase(trim(h[i].data.location)), Unknown)
        g == MapIndex(map, NameKey(locationName))
    IN  IF g # 0
        THEN [map EXCEPT ![g].entries = Append(@, i)]
        ELSE MapSet(map, NameKey(locationName), <<i>>)

\* lines 72-118: the two loops from processing position k on
RECURSIVE GroupFrom(_, _, _)
GroupFrom(h, map, k) ==
    IF k > Len(h) THEN map
    ELSE LET i == ProcessingOrder(h)[k]
         IN  GroupFrom(h,
                       IF HasCoords(h[i]) THEN AddWithCoords(h, map, i)
                                          ELSE AddWithoutCoords(h, map, i),
                       k + 1)

\* lines 61-118: placeMap after the two loops
GroupAll(h) == GroupFrom(h, <<>>, 1)

-----------------------------------------------------------------------------
(* getMostVisitedPlaces: statistics of one group (lines 121-197) *)

Min(a, b) == IF a <= b THEN a ELSE b

\* lines 123-138: the name of the place
LocationName(h, entries) ==
    LET firstEntry == h[entries[1]]
        locs == [k \in 1..Len(entries) |->
                    OrElse(trim(h[entries[k]].data.location), UbicacionDesconocida)]
        Count(k) == Cardinality({k2 \in 1..Len(entries) : locs[k2] = locs[k]})
        \* first key, in insertion order, of the stable sort by descending count
        mostCommon == CHOOSE k \in 1..Len(entries) :
                        /\ \A k2 \in 1..Len(entries) : Count(k2) <= Count(k)
                        /\ \A k2 \in 1..(k - 1) : Count(k2) < Count(k)
    IN  IF Len(entries) > 1
        THEN locs[mostCommon]
        ELSE OrElse(firstEntry.data.location, UbicacionDesconocida)

\* lines 140-158
FinalLat(h, entries) ==
    LET ce == coordsEntries(h, entries)
    IN  IF Len(ce) > 1 THEN avgLat(h, ce)
        ELSE IF Len(ce) = 1 THEN h[ce[1]].data.latitude
        ELSE h[entries[1]].data.latitude

FinalLon(h, entries) ==
    LET ce == coordsEntries(h, entries)
    IN  IF Len(ce) > 1 THEN avgLon(h, ce)
        ELSE IF Len(ce) = 1 THEN h[ce[1]].data.longitude
        ELSE h[entries[1]].data.longitude

\* lines 160-167
VisitDates(h, entries) ==
    SortTexts({h[entries[k]].data.date : k \in
                  {k2 \in 1..Len(entries) : IsIsoDate(h[entries[k2]].data.date)}})

\* lines 169-175
AllTimes(h, entries) ==
    LET timed == SelectSeq(entries, LAMBDA i : IsClockTime(h[i].data.time))
    IN  [k \in 1..Len(timed) |-> h[timed[k]].data.time]

\* timeRange: null
NoTimeRange == [min |-> <<>>, max |-> <<>>]

\* lines 177-184
TimeRange(times) ==
    LET sortedTimes == SortTexts({times[k] : k \in 1..Len(times)})
    IN  IF Len(times) > 0
        THEN [min |-> sortedTimes[1], max |-> sortedTimes[Len(sortedTimes)]]
        ELSE NoTimeRange

\* lines 186-195
MostVisitedPlace(h, group) ==
    [location |-> LocationName(h, group.entries),
     latitude |-> FinalLat(h, group.entries),
     longitude |-> FinalLon(h, group.entries),
     visitCount |-> Len(group.entries),
     entries |-> group.entries,
     visitDates |-> VisitDates(h, group.entries),
     timeRange |-> TimeRange(AllTimes(h, group.entries)),
     allTimes |-> AllTimes(h, group.entries)]

\* Array.from(placeMap.entries()).map(...)
Places(h, map) == [g \in 1..Len(map) |-> MostVisitedPlace(h, map[g])]

\* places.sort((a, b) => b.visitCount - a.visitCount): Array.prototype.sort is
\* stable, so places of equal visitCount keep their order
RECURSIVE InsertByVisits(_, _)
InsertByVisits(sorted, place) ==
    IF sorted = <<>> THEN <<place>>
    ELSE IF Head(sorted).visitCount >= place.visitCount
         THEN <<Head(sorted)>> \o InsertByVisits(Tail(sorted), place)
         ELSE <<place>> \o sorted

RECURSIVE SortByVisits(_)
SortByVisits(places) ==
    IF places = <<>> THEN <<>>
    ELSE InsertByVisits(SortByVisits(SubSeq(places, 1, Len(places) - 1)),
                        places[Len(places)])

-----------------------------------------------------------------------------
(* getMostVisitedPlaces: exclusion of the top places (lines 203-270).       *)
(* Positions are counted from 1, so the excluded positions are 1..N.        *)

\* line 206 without the test of the number of places
ExclusionApplies_NoSizeTest(sorted, exclude, topN) == exclude

\* line 206
ExclusionApplies(sorted, exclude, topN) == exclude /\ Len(sorted) > topN

\* lines 208-211 with the loop ending one place early
PlacesToExclude_OneShort(sorted, exclude, topN) ==
    IF ExclusionApplies(sorted, exclude, topN)
    THEN {i \in 1..Len(sorted) : i < topN}
    ELSE {}

\* lines 208-211
PlacesToExclude(sorted, exclude, topN) ==
    IF ExclusionApplies(sorted, exclude, topN)
    THEN {i \in 1..Len(sorted) : i <= topN}
    ELSE {}

GeofenceCenter(latitude, longitude, visitCount) ==
    [latitude |-> latitude, longitude |-> longitude, visitCount |-> visitCount]

\* lines 212-219: the centres of the excluded places that have coordinates
TopCenters(sorted, exclude, topN) ==
    LET top == SelectSeq(Positions(sorted),
                  LAMBDA i : /\ i \in PlacesToExclude(sorted, exclude, topN)
                             /\ sorted[i].latitude # NULL
                             /\ sorted[i].longitude # NULL)
    IN  [k \in 1..Len(top) |->
            GeofenceCenter(sorted[top[k]].latitude, sorted[top[k]].longitude,
                           sorted[top[k]].visitCount)]

RECURSIVE SumVisits(_)
SumVisits(cs) == IF cs = <<>> THEN 0 ELSE Head(cs).visitCount + SumVisits(Tail(cs))

\* lines 253-265 with the plain average of the group's coordinates
MergedCenter_Unweighted(nearby) ==
    LET totalVisits == SumVisits(nearby)
        lat == RDivInt(RSum([k \in 1..Len(nearby) |-> nearby[k].latitude]), Len(nearby))
        lon == RDivInt(RSum([k \in 1..Len(nearby) |-> nearby[k].longitude]), Len(nearby))
    IN  GeofenceCenter(lat, lon, totalVisits)

\* lines 253-265: the centre that stands for the group nearby
MergedCenter(nearby) ==
    LET totalVisits == SumVisits(nearby)
        weightedLat == RDivInt(RSum([k \in 1..Len(nearby) |->
                          RMul(nearby[k].latitude, Num(nearby[k].visitCount))]),
                          totalVisits)
        weightedLon == RDivInt(RSum([k \in 1..Len(nearby) |->
                          RMul(nearby[k].longitude, Num(nearby[k].visitCount))]),
                          totalVisits)
    IN  IF Len(nearby) > 1
        THEN GeofenceCenter(weightedLat, weightedLon, totalVisits)
        ELSE nearby[1]

\* lines 235-250: the still unprocessed centres after i within 0.5 km of centre i
NearbyOf(centers, i, processed) ==
    SelectSeq(Positions(centers),
        LAMBDA j : /\ j > i
                   /\ j \notin processed
                   /\ Within(calculateDistance(centers[i].latitude, centers[i].longitude,
                                               centers[j].latitude, centers[j].longitude),
                             mergeRadius))

\* lines 227-266: the loop over i
RECURSIVE MergeFrom(_, _, _, _)
MergeFrom(centers, i, processed, mergedCenters) ==
    IF i > Len(centers) THEN mergedCenters
    ELSE IF i \in processed THEN MergeFrom(centers, i + 1, processed, mergedCenters)
    ELSE LET others == NearbyOf(centers, i, processed)
             nearby == <<centers[i]>> \o [k \in 1..Len(others) |-> centers[others[k]]]
         IN  MergeFrom(centers, i + 1,
                       processed \cup {i} \cup {others[k] : k \in 1..Len(others)},
                       Append(mergedCenters, MergedCenter(nearby)))

\* lines 223-269 with the pass repeated on its own result until no two
\* centres are consolidated
RECURSIVE MergeCenters_UntilStable(_)
MergeCenters_UntilStable(centers) ==
    LET once == IF Len(centers) > 1 THEN MergeFrom(centers, 1, {}, <<>>) ELSE centers
    IN  IF Len(once) = Len(centers) THEN once ELSE MergeCenters_UntilStable(once)

\* lines 223-269
MergeCenters(centers) ==
    IF Len(centers) > 1 THEN MergeFrom(centers, 1, {}, <<>>) ELSE centers

\* lines 273-305 without the geofence test of lines 289-301
KeepPlace_NoGeofenceTest(sorted, index, toExclude, centers, radius) ==
    index \notin toExclude

\* lines 273-305 with the places that lack a coordinate dropped
KeepPlace_DropWithoutCoords(sorted, index, toExclude, centers, radius) ==
    LET place == sorted[index]
    IN  IF index \in toExclude THEN FALSE
        ELSE IF place.latitude = NULL \/ place.longitude = NULL THEN FALSE
        ELSE \A c \in 1..Len(centers) :
                ~Within(calculateDistance(centers[c].latitude, centers[c].longitude,
                                          place.latitude, place.longitude),
                        radius)

\* lines 273-305: the filter's verdict on the place at position index
KeepPlace(sorted, index, toExclude, centers, radius) ==
    LET place == sorted[index]
    IN  IF index \in toExclude THEN FALSE
        ELSE IF place.latitude = NULL \/ place.longitude = NULL THEN TRUE
        ELSE IF Len(centers) = 0 THEN TRUE
        ELSE \A c \in 1..Len(centers) :
                ~Within(calculateDistance(centers[c].latitude, centers[c].longitude,
                                          place.latitude, place.longitude),
                        radius)

FilteredPlaces(sorted, toExclude, centers, radius) ==
    LET kept == SelectSeq(Positions(sorted),
                    LAMBDA i : KeepPlace(sorted, i, toExclude, centers, radius))
    IN  [k \in 1..Len(kept) |-> sorted[kept[k]]]

\* slice(0, n) that cuts nothing
Slice_NoCut(s, n) == s

\* Array.prototype.slice(0, n), n >= 0
Slice(s, n) == SubSeq(s, 1, Min(n, Len(s)))

-----------------------------------------------------------------------------
(* Inputs of getMostVisitedPlaces *)

Casa == <<"C", "a", "s", "a">>
CasaPadded == <<" ", "c", "a", "s", "a", " ">>
Parque == <<"P", "a", "r", "q", "u", "e">>

Day1 == <<"2", "0", "2", "5", "-", "0", "1", "-", "0", "1">>
Day2 == <<"2", "0", "2", "5", "-", "0", "1", "-", "0", "2">>
T0800 == <<"0", "8", ":", "0", "0">>
T0905 == <<"0", "9", ":", "0", "5">>

T1133a1601 == <<"1", "1", ":", "3", "3", " ", "a", " ", "1", "6", ":", "0", "1">>

\* an entry as getMostVisitedPlaces sees it (it never reads the id)
Point(location, lat, lon) ==
    HistoryEntry(<<>>, GeoData(Day1, T0800, location, lat, lon))

PointAt(date, time, location, lat, lon) ==
    HistoryEntry(<<>>, GeoData(date, time, location, lat, lon))

\* points on one meridian, 0, 95, 145 and 175 m from the first, and one
\* entry without coordinates
ClusterEntries ==
    { Point(Casa, Num(0), Num(0)), Point(Parque, Num(19), Num(0)),
      Point(Parque, Num(29), Num(0)), Point(<<>>, Num(35), Num(0)),
      Point(Casa, NULL, NULL) }

\* places 150 m apart on one meridian, a point 75 m east of the second, and
\* entries that lack one or both coordinates
PlaceEntries ==
    { Point(Casa, Num(0), Num(0)), Point(Parque, Num(30), Num(0)),
      PointAt(Day2, T0905, <<>>, Num(60), Num(0)),
      PointAt(Day2, T1133a1601, Parque, Num(30), Num(15)),
      Point(Casa, NULL, NULL), PointAt(Day2, T0905, CasaPadded, NULL, NULL),
      PointAt(<<>>, <<>>, <<>>, Num(30), NULL) }

SeqsUpTo(S, n) == UNION {[1..k -> S] : k \in 0..n}

-----------------------------------------------------------------------------
(* getMostVisitedPlaces as a state machine: one step per loop iteration of  *)
(* the grouping, then the statistics and sort, the exclusion, the filter.   *)

\* no call of updateWithNewKMZFiles is under way
UpdateIdle ==
    /\ newKMZFiles = <<>>
    /\ existingHistory = <<>>
    /\ upc = "idle"
    /\ fileIndex = 1
    /\ updatedHistory = <<>>
    /\ processedEntries = <<>>
    /\ updateResult = [added |-> 0, skipped |-> 0, errors |-> <<>>,
                       totalBefore |-> 0, totalAfter |-> 0]
    /\ calls = 0

\* no call of getMostVisitedPlaces is under way
PlacesIdle ==
    /\ history = <<>>
    /\ limit = 3
    /\ excludeHomeGeofence = TRUE
    /\ excludeTopN = 2
    /\ pc = "idle"
    /\ cursor = 1
    /\ placeMap = <<>>
    /\ sortedPlaces = <<>>
    /\ placesToExclude = {}
    /\ geofenceCenters = <<>>
    /\ result = <<>>

\* neither generateUniqueId nor mergeEntries is called on its own
DedupIdle ==
    /\ argFileName = <<>>
    /\ argGeoData = GeoData(<<>>, <<>>, <<>>, NULL, NULL)
    /\ mergeHistory = <<>>
    /\ dpc = "idle"
    /\ uniqueId = <<>>
    /\ mergeResult = [newEntries |-> <<>>, skippedCount |-> 0]

\* AutoLoadService is not in use
LoadIdle ==
    /\ db = FALSE
    /\ processedFiles = <<>>
    /\ locations = <<>>
    /\ runs = <<>>
    /\ failures = 0

\* createBackup has not been called
BackupIdle ==
    /\ localStorage = {}
    /\ clock = 0
    /\ backupCalls = 0
    /\ lastBackup = [id |-> 0, history |-> <<>>]

InitLocals ==
    /\ pc = "group"
    /\ cursor = 1
    /\ placeMap = <<>>
    /\ sortedPlaces = <<>>
    /\ placesToExclude = {}
    /\ geofenceCenters = <<>>
    /\ result = <<>>

\* long histories, exclusion switched off, nothing cut by the limit
InitCluster ==
    /\ history \in SeqsUpTo(ClusterEntries, MaxClusterHist)
    /\ limit = MaxClusterHist
    /\ excludeHomeGeofence = FALSE
    /\ excludeTopN = 2
    /\ InitLocals
    /\ UpdateIdle
    /\ DedupIdle
    /\ LoadIdle
    /\ BackupIdle

\* short histories, every combination of the options
InitPlaces ==
    /\ history \in SeqsUpTo(PlaceEntries, MaxHist)
    /\ limit \in {1, MaxLimit}
    /\ excludeHomeGeofence \in BOOLEAN
    /\ excludeTopN \in 0..MaxTopN
    /\ InitLocals
    /\ UpdateIdle
    /\ DedupIdle
    /\ LoadIdle
    /\ BackupIdle

\* points 100 m and 105 m from the first, and an entry without coordinates
JoinEntries ==
    { Point(Casa, Num(0), Num(0)), Point(Parque, Num(20), Num(0)),
      Point(Parque, Num(21), Num(0)), Point(Casa, NULL, NULL) }

\* points at and just beyond distanceThreshold, exclusion switched off
InitJoin ==
    /\ history \in SeqsUpTo(JoinEntries, MaxJoinHist)
    /\ limit = MaxJoinHist
    /\ excludeHomeGeofence = FALSE
    /\ excludeTopN = 2
    /\ InitLocals
    /\ UpdateIdle
    /\ DedupIdle
    /\ LoadIdle
    /\ BackupIdle

\* places 500 m, 700 m and 1500 m from the first on one meridian, each a
\* cluster of its own, and an entry without coordinates
GeofenceEntries ==
    { Point(Casa, Num(0), Num(0)), Point(Parque, Num(100), Num(0)),
      Point(Parque, Num(140), Num(0)), Point(<<>>, Num(300), Num(0)),
      Point(Casa, NULL, NULL) }

\* exclusion switched on with two or more top places, nothing cut by the limit
InitGeofence ==
    /\ history \in SeqsUpTo(GeofenceEntries, MaxGeofenceHist)
    /\ limit = MaxGeofenceHist
    /\ excludeHomeGeofence = TRUE
    /\ excludeTopN \in 2..MaxCenters
    /\ InitLocals
    /\ UpdateIdle
    /\ DedupIdle
    /\ LoadIdle
    /\ BackupIdle

\* histories long enough for a second cluster to be made while the first
\* one drifts, the most visited place excluded
InitOrder ==
    /\ history \in SeqsUpTo(ClusterEntries, MaxOrderHist)
    /\ limit = MaxOrderHist
    /\ excludeHomeGeofence = TRUE
    /\ excludeTopN = 1
    /\ InitLocals
    /\ UpdateIdle
    /\ DedupIdle
    /\ LoadIdle
    /\ BackupIdle

\* lines 56-58
ReturnEmpty ==
    /\ pc = "group"
    /\ Len(history) = 0
    /\ result' = <<>>
    /\ pc' = "done"
    /\ UNCHANGED <<history, limit, excludeHomeGeofence, excludeTopN, cursor,
                   placeMap, sortedPlaces, placesToExclude, geofenceCenters>>
    /\ UNCHANGED notPlaceVars

\* lines 72-107, one iteration
GroupWithCoords ==
    /\ pc = "group"
    /\ cursor <= Len(history)
    /\ HasCoords(history[ProcessingOrder(history)[cursor]])
    /\ placeMap' = AddWithCoords(history, placeMap, ProcessingOrder(history)[cursor])
    /\ cursor' = cursor + 1
    /\ UNCHANGED <<history, limit, excludeHomeGeofence, excludeTopN, pc,
                   sortedPlaces, placesToExclude, geofenceCenters, result>>
    /\ UNCHANGED notPlaceVars

\* lines 110-118, one iteration
GroupWithoutCoords ==
    /\ pc = "group"
    /\ cursor <= Len(history)
    /\ ~HasCoords(history[ProcessingOrder(history)[cursor]])
    /\ placeMap' = AddWithoutCoords(history, placeMap, ProcessingOrder(history)[cursor])
    /\ cursor' = cursor + 1
    /\ UNCHANGED <<history, limit, excludeHomeGeofence, excludeTopN, pc,
                   sortedPlaces, placesToExclude, geofenceCenters, result>>
    /\ UNCHANGED notPlaceVars

\* lines 121-200
SortPlaces ==
    /\ pc = "group"
    /\ Len(history) # 0
    /\ cursor > Len(history)
    /\ sortedPlaces' = SortByVisits(Places(history, placeMap))
    /\ pc' = "exclude"
    /\ UNCHANGED <<history, limit, excludeHomeGeofence, excludeTopN, cursor,
                   placeMap, placesToExclude, geofenceCenters, result>>
    /\ UNCHANGED notPlaceVars

\* lines 203-270
BuildGeofence ==
    /\ pc = "exclude"
    /\ placesToExclude' = PlacesToExclude(sortedPlaces, excludeHomeGeofence, excludeTopN)
    /\ geofenceCenters' =
          MergeCenters(TopCenters(sortedPlaces, excludeHomeGeofence, excludeTopN))
    /\ pc' = "filter"
    /\ UNCHANGED <<history, limit, excludeHomeGeofence, excludeTopN, cursor,
                   placeMap, sortedPlaces, result>>
    /\ UNCHANGED notPlaceVars

\* lines 273-308
FilterPlaces ==
    /\ pc = "filter"
    /\ result' = Slice(FilteredPlaces(sortedPlaces, placesToExclude,
                                      geofenceCenters, geofenceRadius), limit)
    /\ pc' = "done"
    /\ UNCHANGED <<history, limit, excludeHomeGeofence, excludeTopN, cursor,
                   placeMap, sortedPlaces, placesToExclude, geofenceCenters>>
    /\ UNCHANGED notPlaceVars

NextPlaces ==
    \/ ReturnEmpty
    \/ GroupWithCoords
    \/ GroupWithoutCoords
    \/ SortPlaces
    \/ BuildGeofence
    \/ FilterPlaces

SpecCluster == InitCluster /\ [][NextPlaces]_vars
SpecPlaces == InitPlaces /\ [][NextPlaces]_vars
SpecJoin == InitJoin /\ [][NextPlaces]_vars
SpecGeofence == InitGeofence /\ [][NextPlaces]_vars
SpecOrder == InitOrder /\ [][NextPlaces]_vars

-----------------------------------------------------------------------------
(* Properties of getMostVisitedPlaces *)

\* the (place, member) pairs of a list of places that hold history position i
Holders(places, i) ==
    {pm \in (1..Len(places)) \X (1..Len(history)) :
        /\ pm[2] <= Len(places[pm[1]].entries)
        /\ places[pm[1]].entries[pm[2]] = i}

RECURSIVE SumVisitCount(_)
SumVisitCount(places) ==
    IF places = <<>> THEN 0 ELSE Head(places).visitCount + SumVisitCount(Tail(places))

PlaceHasCoords(place) == place.latitude # NULL /\ place.longitude # NULL

PlaceWithin(place, lat, lon, radius) ==
    Within(calculateDistance(lat, lon, place.latitude, place.longitude), radius)

\* C1: with exclusion disabled and the limit at least the number of clusters,
\* every history entry that has both coordinates is in the entries of exactly
\* one returned cluster.
C1_GeoEntriesPartitioned ==
    (pc = "done" /\ ~excludeHomeGeofence /\ limit >= Len(sortedPlaces)) =>
        \A i \in 1..Len(history) :
            HasCoords(history[i]) => Cardinality(Holders(result, i)) = 1

\* C2: the visitCounts of the clusters built before exclusion filtering sum
\* to the length of the input history.
C2_VisitCountsSumToInput ==
    pc \in {"exclude", "filter", "done"} =>
        SumVisitCount(sortedPlaces) = Len(history)

\* C3 (as claimed): with excludeHomeGeofence enabled and excludeTopN at least
\* the number of clusters, the result is empty.
C3_EmptyWhenTopNCoversAll ==
    (pc = "done" /\ excludeHomeGeofence /\ excludeTopN >= Len(sortedPlaces)) =>
        result = <<>>

\* C3 (amended): with excludeHomeGeofence enabled and excludeTopN at least the
\* number of clusters, nothing is excluded: the result is the first limit
\* clusters of the sorted list.
C3_NoExclusionWhenTopNCoversAll ==
    (pc = "done" /\ excludeHomeGeofence /\ excludeTopN >= Len(sortedPlaces)) =>
        /\ result = Slice(sortedPlaces, limit)
        /\ (Len(history) # 0 => result # <<>>)

C3_Witness ==
    /\ pc = "done"
    /\ excludeHomeGeofence
    /\ excludeTopN = 2
    /\ Len(sortedPlaces) = 2
    /\ Len(result) = 2

\* C8: with exclusion enabled and more clusters than excludeTopN, no cluster
\* at the first excludeTopN positions of the sorted list is in the result,
\* with or without coordinates.
C8_TopPlacesNeverReturned ==
    (pc = "done" /\ excludeHomeGeofence /\ Len(sortedPlaces) > excludeTopN) =>
        \A i \in 1..excludeTopN : \A k \in 1..Len(result) :
            result[k] # sortedPlaces[i]

C8_Witness ==
    /\ pc = "done"
    /\ excludeHomeGeofence
    /\ excludeTopN = 2
    /\ Len(sortedPlaces) > excludeTopN
    /\ PlaceHasCoords(sortedPlaces[1])
    /\ ~PlaceHasCoords(sortedPlaces[2])
    /\ result # <<>>

\* C9: with exclusion active, no returned cluster that has a centroid is at
\* distance <= geofenceRadius from a consolidated geofence centre.
C9_ResultOutsideMergedGeofences ==
    (pc = "done" /\ ExclusionApplies(sortedPlaces, excludeHomeGeofence, excludeTopN)) =>
        \A k \in 1..Len(result) : \A c \in 1..Len(geofenceCenters) :
            PlaceHasCoords(result[k]) =>
                ~PlaceWithin(result[k], geofenceCenters[c].latitude,
                             geofenceCenters[c].longitude, geofenceRadius)

\* a place beyond the top ones was dropped by the geofence while another one
\* with a centroid was returned
C9_Witness ==
    /\ pc = "done"
    /\ ExclusionApplies(sortedPlaces, excludeHomeGeofence, excludeTopN)
    /\ Len(geofenceCenters) > 0
    /\ \E k \in 1..Len(result) : PlaceHasCoords(result[k])
    /\ Len(result) < limit
    /\ Len(result) + excludeTopN < Len(sortedPlaces)

\* C10: with exclusion active, no returned place that has coordinates is
\* within geofenceRadius of the centroid of one of the excludeTopN most
\* visited places.
C10_ResultOutsideTopPlaces ==
    (pc = "done" /\ ExclusionApplies(sortedPlaces, excludeHomeGeofence, excludeTopN)) =>
        \A k \in 1..Len(result) : \A i \in 1..excludeTopN :
            (PlaceHasCoords(result[k]) /\ PlaceHasCoords(sortedPlaces[i])) =>
                ~PlaceWithin(result[k], sortedPlaces[i].latitude,
                             sortedPlaces[i].longitude, geofenceRadius)

\* the positions of the sorted list that the exclusion leaves: not one of the
\* excluded top positions, and without a centroid or with a centroid farther
\* than geofenceRadius from every consolidated centre
Survivors ==
    SelectSeq(Positions(sortedPlaces),
        LAMBDA i :
            /\ i \notin placesToExclude
            /\ PlaceHasCoords(sortedPlaces[i]) =>
                  \A c \in 1..Len(geofenceCenters) :
                      ~PlaceWithin(sortedPlaces[i], geofenceCenters[c].latitude,
                                   geofenceCenters[c].longitude, geofenceRadius))

\* C11: the result has at most limit clusters; it is the first limit clusters
\* of the sorted list that survive the exclusion, in the order of that list,
\* and their visitCounts never increase.
C11_ResultIsPrefixOfSurvivors ==
    (pc = "done" /\ Len(history) # 0) =>
        /\ Len(result) <= limit
        /\ Len(result) = Min(limit, Len(Survivors))
        /\ \A k \in 1..Len(result) : result[k] = sortedPlaces[Survivors[k]]
        /\ \A k \in 1..(Len(result) - 1) :
              result[k].visitCount >= result[k + 1].visitCount

\* the exclusion removed a place, two places survived and the limit cut one
C11_Witness ==
    /\ pc = "done"
    /\ ExclusionApplies(sortedPlaces, excludeHomeGeofence, excludeTopN)
    /\ placesToExclude # {}
    /\ limit = 1
    /\ Len(Survivors) >= 2
    /\ Len(result) = 1

\* the label of an entry after trim and lowercase, an empty one as 'unknown'
NormalizedLabel(e) == OrElse(toLowerCase(trim(e.data.location)), Unknown)

\* some place of the list holds both history positions
SameCluster(places, i, j) ==
    \E p \in 1..Len(places) :
        /\ \E k \in 1..Len(places[p].entries) : places[p].entries[k] = i
        /\ \E k \in 1..Len(places[p].entries) : places[p].entries[k] = j

\* C13: every entry that lacks a coordinate is in exactly one cluster; two
\* such entries are in the same cluster exactly when their labels are equal
\* after trim and lowercase (an empty label counting as 'unknown'); and no
\* cluster holds both an entry with coordinates and one without.
C13_LabelOnlyPartitionedByLabel ==
    pc \in {"exclude", "filter", "done"} =>
        /\ \A i \in 1..Len(history) :
              ~HasCoords(history[i]) => Cardinality(Holders(sortedPlaces, i)) = 1
        /\ \A i, j \in 1..Len(history) :
              (~HasCoords(history[i]) /\ ~HasCoords(history[j])) =>
                  (SameCluster(sortedPlaces, i, j)
                      <=> NormalizedLabel(history[i]) = NormalizedLabel(history[j]))
        /\ \A i, j \in 1..Len(history) :
              (HasCoords(history[i]) /\ ~HasCoords(history[j])) =>
                  ~SameCluster(sortedPlaces, i, j)

\* two entries without coordinates whose labels differ as written share a
\* cluster, and an entry with coordinates and the same label is in another
C13_Witness ==
    /\ pc = "done"
    /\ \E i, j, k \in 1..Len(history) :
          /\ ~HasCoords(history[i])
          /\ ~HasCoords(history[j])
          /\ history[i].data.location # history[j].data.location
          /\ SameCluster(sortedPlaces, i, j)
          /\ HasCoords(history[k])
          /\ NormalizedLabel(history[k]) = NormalizedLabel(history[i])
          /\ ~SameCluster(sortedPlaces, i, k)

\* the memberships of a grouping: the set of the sets of entries of its groups
Memberships(h, groups) ==
    {{h[groups[g].entries[k]] : k \in 1..Len(groups[g].entries)} : g \in 1..Len(groups)}

\* the orderings of a set of entries: the lists that hold each entry once
Orderings(S) ==
    {h \in [1..Cardinality(S) -> S] : \A i, j \in 1..Cardinality(S) : i # j => h[i] # h[j]}

GeoPoints == {e \in ClusterEntries : HasCoords(e)}

\* some set of geo-located points has two orderings that are grouped differently
OrderSensitive ==
    \E S \in SUBSET GeoPoints : \E h1, h2 \in Orderings(S) :
        Memberships(h1, GroupAll(h1)) # Memberships(h2, GroupAll(h2))

\* C15: clustering is order-sensitive.  placeMap after the loops of a call is
\* GroupAll of the call's history, and there are a set of geo-located points
\* and two orderings of it whose groupings have different memberships.
C15_ClusteringIsOrderSensitive ==
    /\ pc \in {"exclude", "filter", "done"} => placeMap = GroupAll(history)
    /\ OrderSensitive

\* a finished call on distinct geo-located points whose clusters are not
\* those of another ordering of the same points
C15_Witness ==
    /\ pc = "done"
    /\ Len(history) >= 3
    /\ history \in Orderings({history[i] : i \in 1..Len(history)})
    /\ \A i \in 1..Len(history) : HasCoords(history[i])
    /\ \E h2 \in Orderings({history[i] : i \in 1..Len(history)}) :
          Memberships(history, result) # Memberships(h2, GroupAll(h2))

\* the history positions held by a group
Members(group) == {group.entries[k] : k \in 1..Len(group.entries)}

\* C17: clusters only grow during the clustering pass: at every step of the
\* pass each cluster that exists before the step exists after it, at the same
\* place in creation order, with all the members it had.
C17_ClustersOnlyGrow ==
    [][pc = "group" =>
          \A g \in 1..Len(placeMap) :
              /\ g <= Len(placeMap')
              /\ Members(placeMap[g]) \subseteq Members(placeMap'[g])]_vars

RECURSIVE SumInts(_)
SumInts(s) == IF s = <<>> THEN 0 ELSE Head(s) + SumInts(Tail(s))

\* the point (lat, lon) is at distance <= distanceThreshold from the mean of
\* the members of the group; with n members this is
\* |n * point - sum of the members| <= n * distanceThreshold, here in whole
\* grid steps and squared
Qualifies(h, group, lat, lon) ==
    LET n == Len(group.entries)
        sumLat == SumInts([k \in 1..n |-> h[group.entries[k]].data.latitude.num])
        sumLon == SumInts([k \in 1..n |-> h[group.entries[k]].data.longitude.num])
        dLat == n * lat.num - sumLat
        dLon == n * lon.num - sumLon
    IN  dLat * dLat + dLon * dLon <= (n * distanceThreshold) * (n * distanceThreshold)

\* the step about to be taken handles a geo point
AtGeoPoint ==
    /\ pc = "group"
    /\ cursor <= Len(history)
    /\ HasCoords(history[ProcessingOrder(history)[cursor]])

\* C18: each geo point, in input order, joins the first cluster in creation
\* order whose centroid, the mean of the members assigned so far, is at
\* distance <= distanceThreshold, whichever cluster is nearest, and no other
\* cluster changes; when no cluster qualifies the point becomes a cluster of
\* its own.
C18_JoinsFirstQualifyingCluster ==
    [][AtGeoPoint =>
          LET i == ProcessingOrder(history)[cursor]
              lat == history[i].data.latitude
              lon == history[i].data.longitude
              qualifying == {g \in 1..Len(placeMap) :
                                Qualifies(history, placeMap[g], lat, lon)}
              first == CHOOSE g \in qualifying : \A g2 \in qualifying : g <= g2
          IN  /\ ProcessingOrder(history)[cursor] = entriesWithCoords(history)[cursor]
              /\ IF qualifying # {}
                 THEN placeMap' = [placeMap EXCEPT ![first].entries = Append(@, i)]
                 ELSE /\ \E g \in 1..Len(placeMap') : placeMap'[g].entries = <<i>>
                      /\ \A g \in 1..Len(placeMap') :
                            \/ placeMap'[g].entries = <<i>>
                            \/ g <= Len(placeMap) /\ placeMap'[g] = placeMap[g]]_vars

\* a point exactly distanceThreshold from the centroid of the first cluster
\* has joined it although a later cluster is nearer
C18_Witness ==
    /\ pc = "group"
    /\ Len(placeMap) = 2
    /\ Len(placeMap[1].entries) = 2
    /\ LET first == history[placeMap[1].entries[1]].data
           joined == history[placeMap[1].entries[2]].data
           other == history[placeMap[2].entries[1]].data
       IN  /\ placeMap[2].entries[1] < placeMap[1].entries[2]
           /\ joined.latitude.num - first.latitude.num = distanceThreshold
           /\ joined.longitude = first.longitude
           /\ Abs(joined.latitude.num - other.latitude.num) < distanceThreshold

\* the labels, trimmed, of the members of a place that have a label
NonEmptyLabels(h, place) ==
    LET named == SelectSeq(place.entries, LAMBDA i : trim(h[i].data.location) # <<>>)
    IN  [k \in 1..Len(named) |-> trim(h[named[k]].data.location)]

\* the most frequent element of a non-empty list, the first of them in the
\* list when several are as frequent
MostFrequent(labels) ==
    LET Count(k) == Cardinality({k2 \in 1..Len(labels) : labels[k2] = labels[k]})
        best == CHOOSE k \in 1..Len(labels) :
                    /\ \A k2 \in 1..Len(labels) : Count(k2) <= Count(k)
                    /\ \A k2 \in 1..(k - 1) : labels[k2] # labels[k] => Count(k2) < Count(k)
                    /\ \A k2 \in 1..(k - 1) : labels[k2] # labels[k]
    IN  labels[best]

\* C19: the location of every cluster that has a member with a label is the
\* most frequent non-empty label among its members, the first in member order
\* among equally frequent ones; members with an empty label count for nothing.
C19_LabelIsMostFrequentNonEmpty ==
    pc \in {"exclude", "filter", "done"} =>
        \A p \in 1..Len(sortedPlaces) :
            NonEmptyLabels(history, sortedPlaces[p]) # <<>> =>
                trim(sortedPlaces[p].location)
                    = MostFrequent(NonEmptyLabels(history, sortedPlaces[p]))

\* the start time of a time field: the field when it is a clock time, its
\* first clock time when it is a range ("11:33 a 16:01"), else nothing
StartTime(time) ==
    IF Len(time) >= 5 /\ IsClockTime(SubSeq(time, 1, 5)) THEN SubSeq(time, 1, 5) ELSE <<>>

StartTimes(h, place) ==
    {StartTime(h[place.entries[k]].data.time) : k \in 1..Len(place.entries)} \ {<<>>}

\* C20: timeRange of a cluster is the least and the greatest, in text order,
\* of the start times of its members' time fields, a range counting by its
\* start; it is null exactly when no member has a start time.
C20_TimeRangeOfStartTimes ==
    pc \in {"exclude", "filter", "done"} =>
        \A p \in 1..Len(sortedPlaces) :
            LET starts == StartTimes(history, sortedPlaces[p])
                sorted == SortTexts(starts)
            IN  IF starts = {}
                THEN sortedPlaces[p].timeRange = NoTimeRange
                ELSE sortedPlaces[p].timeRange
                        = [min |-> sorted[1], max |-> sorted[Len(sorted)]]

\* the mean of whole numbers is the fraction x: count * x = their sum
IsMeanOf(x, nums) == x # NULL /\ Len(nums) * x.num = x.den * SumInts(nums)

\* the fraction x is between the least and the greatest of whole numbers
IsBetween(x, nums) ==
    /\ \E k \in 1..Len(nums) : nums[k] * x.den <= x.num
    /\ \E k \in 1..Len(nums) : x.num <= nums[k] * x.den

\* C21: latitude and longitude of every cluster are the arithmetic mean of the
\* coordinates of its members that have both coordinates, and so lie between
\* the least and the greatest of them; both are null exactly when the cluster
\* has no member with both coordinates.
C21_CentroidIsMeanOfGeoMembers ==
    pc \in {"exclude", "filter", "done"} =>
        \A p \in 1..Len(sortedPlaces) :
            LET place == sortedPlaces[p]
                ce == coordsEntries(history, place.entries)
                lats == [k \in 1..Len(ce) |-> history[ce[k]].data.latitude.num]
                lons == [k \in 1..Len(ce) |-> history[ce[k]].data.longitude.num]
            IN  IF ce = <<>>
                THEN place.latitude = NULL /\ place.longitude = NULL
                ELSE /\ IsMeanOf(place.latitude, lats)
                     /\ IsMeanOf(place.longitude, lons)
                     /\ IsBetween(place.latitude, lats)
                     /\ IsBetween(place.longitude, lons)

\* the positions of the excluded top places that have coordinates, in the
\* order of the sorted list: the centres before consolidation
OriginalCenters ==
    SelectSeq(Positions(sortedPlaces),
        LAMBDA i : i \in placesToExclude /\ PlaceHasCoords(sortedPlaces[i]))

\* the centre c stands for the group G of original centres: its weight is the
\* sum of their visitCounts and its coordinates are their averages weighted
\* by visitCount
StandsFor(c, G) ==
    LET members == SelectSeq(OriginalCenters, LAMBDA i : i \in G)
        weights == [k \in 1..Len(members) |-> sortedPlaces[members[k]].visitCount]
        total == SumInts(weights)
        latSum == RSum([k \in 1..Len(members) |->
                      RMul(sortedPlaces[members[k]].latitude, Num(weights[k]))])
        lonSum == RSum([k \in 1..Len(members) |->
                      RMul(sortedPlaces[members[k]].longitude, Num(weights[k]))])
    IN  /\ G # {}
        /\ c.visitCount = total
        /\ RMul(c.latitude, Num(total)) = latSum
        /\ RMul(c.longitude, Num(total)) = lonSum

\* C22: consolidation puts every original centre in exactly one group and
\* keeps one centre for each group, whose weight is the sum of the group's
\* visitCounts and whose coordinates are the group's averages weighted by
\* visitCount; the weights of the consolidated centres sum to the total
\* visitCount of the excluded top places that have coordinates.
C22_ConsolidationIsWeightedPartition ==
    pc \in {"filter", "done"} =>
        /\ \E group \in [{OriginalCenters[k] : k \in 1..Len(OriginalCenters)}
                            -> 1..Len(geofenceCenters)] :
              \A c \in 1..Len(geofenceCenters) :
                  StandsFor(geofenceCenters[c], {i \in DOMAIN group : group[i] = c})
        /\ SumVisits(geofenceCenters)
              = SumInts([k \in 1..Len(OriginalCenters) |->
                            sortedPlaces[OriginalCenters[k]].visitCount])

\* two centres of different weight were consolidated into one
C22_Witness ==
    /\ pc = "done"
    /\ Len(OriginalCenters) >= 2
    /\ Len(geofenceCenters) < Len(OriginalCenters)
    /\ sortedPlaces[OriginalCenters[1]].visitCount
          > sortedPlaces[OriginalCenters[2]].visitCount
    /\ geofenceCenters[1].visitCount
          = sortedPlaces[OriginalCenters[1]].visitCount
              + sortedPlaces[OriginalCenters[2]].visitCount

\* the original centres k and k2 (positions in OriginalCenters) are within
\* mergeRadius of each other
NearCenters(k, k2) ==
    PlaceWithin(sortedPlaces[OriginalCenters[k]],
                sortedPlaces[OriginalCenters[k2]].latitude,
                sortedPlaces[OriginalCenters[k2]].longitude, mergeRadius)

\* the original centre k starts a group: no earlier centre that starts a
\* group is within mergeRadius of it
RECURSIVE StartsGroup(_)
StartsGroup(k) == \A k2 \in 1..(k - 1) : StartsGroup(k2) => ~NearCenters(k2, k)

\* the group of the original centre k: the earliest centre, k or before it,
\* that starts a group and is within mergeRadius of centre k
GroupOf(k) ==
    CHOOSE k2 \in 1..k :
        /\ StartsGroup(k2) /\ NearCenters(k2, k)
        /\ \A k3 \in 1..(k2 - 1) : ~(StartsGroup(k3) /\ NearCenters(k3, k))

\* C23: consolidation is one greedy pass: an original centre joins the group
\* of the earliest centre that starts a group and whose own position is within
\* 0.5 km of it; the consolidated centres are those groups, in the order of
\* their first centres, and are not compared with each other again (so two of
\* them may be within 0.5 km of each other).
C23_SingleGreedyPass ==
    pc \in {"filter", "done"} =>
        LET starts == SelectSeq(Positions(OriginalCenters), StartsGroup)
        IN  /\ Len(geofenceCenters) = Len(starts)
            /\ \A c \in 1..Len(starts) :
                  StandsFor(geofenceCenters[c],
                            {OriginalCenters[k] : k \in
                                {k2 \in 1..Len(OriginalCenters) : GroupOf(k2) = starts[c]}})

\* two consolidated centres, one of them standing for two places, are within
\* 0.5 km of each other
C23_Witness ==
    /\ pc = "done"
    /\ Len(OriginalCenters) = 3
    /\ Len(geofenceCenters) = 2
    /\ Within(calculateDistance(geofenceCenters[1].latitude, geofenceCenters[1].longitude,
                                geofenceCenters[2].latitude, geofenceCenters[2].longitude),
              mergeRadius)

\* C24: a cluster without a centroid is never removed by the geofence test:
\* before the limit is applied it is absent from the result only when it is at
\* one of the excluded top positions; and a cluster without a centroid among
\* the excluded top places contributes no geofence centre.
C24_LabelOnlyNeverGeofenced ==
    (pc = "done" /\ Len(history) # 0) =>
        LET excluded == IF excludeHomeGeofence /\ Len(sortedPlaces) > excludeTopN
                        THEN 1..excludeTopN ELSE {}
            InResult(i) == \E k \in 1..Len(result) : result[k] = sortedPlaces[i]
        IN  /\ limit >= Len(sortedPlaces) =>
                  \A i \in 1..Len(sortedPlaces) :
                      ~PlaceHasCoords(sortedPlaces[i]) =>
                          (InResult(i) <=> i \notin excluded)
            /\ SumVisits(geofenceCenters)
                  = SumInts([k \in 1..Len(sortedPlaces) |->
                        IF k \in excluded /\ PlaceHasCoords(sortedPlaces[k])
                        THEN sortedPlaces[k].visitCount ELSE 0])
            /\ Len(geofenceCenters)
                  <= Cardinality({i \in excluded : PlaceHasCoords(sortedPlaces[i])})

\* a cluster without a centroid is among the excluded top places and adds no
\* centre beside the one of a geo cluster, and another one is returned
C24_Witness ==
    /\ pc = "done"
    /\ ExclusionApplies(sortedPlaces, excludeHomeGeofence, excludeTopN)
    /\ \E i \in placesToExclude : ~PlaceHasCoords(sortedPlaces[i])
    /\ Len(geofenceCenters) = 1
    /\ limit >= Len(sortedPlaces)
    /\ \E k \in 1..Len(result) : ~PlaceHasCoords(result[k])

\* the place p comes before the place q in creation order: a place with a
\* geo-located first member before one without, and otherwise the place
\* whose first member is earlier in the input
CreatedBefore(p, q) ==
    LET fp == p.entries[1]
        fq == q.entries[1]
    IN  IF HasCoords(history[fp]) # HasCoords(history[fq])
        THEN HasCoords(history[fp])
        ELSE fp < fq

\* C29: the sorted list is in descending order of visitCount, and clusters of
\* equal visitCount are in creation order: geo clusters in the order of their
\* first members, then label-only clusters in the order of first appearance;
\* the excluded top places are the first excludeTopN of that list.
C29_TiesKeepCreationOrder ==
    pc \in {"filter", "done"} =>
        /\ \A p, q \in 1..Len(sortedPlaces) :
              p < q =>
                  /\ sortedPlaces[p].visitCount >= sortedPlaces[q].visitCount
                  /\ sortedPlaces[p].visitCount = sortedPlaces[q].visitCount =>
                        CreatedBefore(sortedPlaces[p], sortedPlaces[q])
        /\ placesToExclude \in {{}, 1..excludeTopN}

-----------------------------------------------------------------------------
(* UpdateService: text of keys and ids *)

Underscore == "_"

RECURSIVE Digits(_)
Digits(n) ==
    IF n < 10 THEN <<ToString(n)>> ELSE Append(Digits(n \div 10), ToString(n % 10))

\* `${x}` for x a number or null.  Coordinates are whole grid steps; the text
\* of a number is the decimal text of its step count, which like JavaScript's
\* number text is different for different numbers.
NumberText(x) ==
    IF x = NULL THEN <<"n", "u", "l", "l">>
    ELSE IF x.num < 0 THEN <<"-">> \o Digits(-x.num)
    ELSE Digits(x.num)

\* `${entry.data.date}_${entry.data.time}_${entry.data.latitude}_${entry.data.longitude}`
EntryKey(data) ==
    data.date \o <<Underscore>> \o data.time \o <<Underscore>>
        \o NumberText(data.latitude) \o <<Underscore>> \o NumberText(data.longitude)

\* `${fileName}_${geoData.date}_${geoData.time}_${geoData.latitude}_${geoData.longitude}`
IdKey(fileName, geoData) == fileName \o <<Underscore>> \o EntryKey(geoData)

\* btoa throws InvalidCharacterError on a character above U+00FF
BtoaThrows(text) == \E i \in 1..Len(text) : CharCode(text[i]) > 255

\* btoa: the base64 digits (0..63, in the order A-Z a-z 0-9 + /) of a text,
\* without the trailing "=" padding
ByteAt(text, i) == IF i <= Len(text) THEN CharCode(text[i]) ELSE 0

Sextet(text, k) ==
    LET g == (k - 1) \div 4
        b0 == ByteAt(text, 3 * g + 1)
        b1 == ByteAt(text, 3 * g + 2)
        b2 == ByteAt(text, 3 * g + 3)
        pos == (k - 1) % 4
    IN  CASE pos = 0 -> b0 \div 4
          [] pos = 1 -> (b0 % 4) * 16 + b1 \div 16
          [] pos = 2 -> (b1 % 16) * 4 + b2 \div 64
          [] pos = 3 -> b2 % 64

btoa(text) ==
    LET n == Len(text)
        count == 4 * (n \div 3) + (IF n % 3 = 0 THEN 0 ELSE (n % 3) + 1)
    IN  [k \in 1..count |-> Sextet(text, k)]

IdLength == 32

\* .replace(/[^a-zA-Z0-9]/g, ''): drops "+" (62), "/" (63) and the padding
StripNonAlnum(digits) == SelectSeq(digits, LAMBDA d : d < 62)

\* lines 473-477
generateUniqueId(fileName, geoData) ==
    Slice(StripNonAlnum(btoa(IdKey(fileName, geoData))), IdLength)

-----------------------------------------------------------------------------
(* UpdateService.mergeEntries (lines 482-508) *)

ExistingIds(hist) == {hist[i].id : i \in 1..Len(hist)}
ExistingKeys(hist) == {EntryKey(hist[i].data) : i \in 1..Len(hist)}

\* line 500 without the test of the id
IsNew_KeyOnly(existingIds, existingKeys, newEntry) ==
    EntryKey(newEntry.data) \notin existingKeys

\* line 500
IsNew(existingIds, existingKeys, newEntry) ==
    newEntry.id \notin existingIds /\ EntryKey(newEntry.data) \notin existingKeys

\* lines 496-505: the loop from candidate k on
RECURSIVE MergeLoop(_, _, _, _, _, _)
MergeLoop(newEntries, k, existingIds, existingKeys, uniqueNewEntries, skippedCount) ==
    IF k > Len(newEntries)
    THEN [newEntries |-> uniqueNewEntries, skippedCount |-> skippedCount]
    ELSE IF IsNew(existingIds, existingKeys, newEntries[k])
         THEN MergeLoop(newEntries, k + 1, existingIds, existingKeys,
                        Append(uniqueNewEntries, newEntries[k]), skippedCount)
         ELSE MergeLoop(newEntries, k + 1, existingIds, existingKeys,
                        uniqueNewEntries, skippedCount + 1)

\* lines 482-508 with every candidate admitted
mergeEntries_AdmitAll(hist, newEntries) ==
    [newEntries |-> newEntries, skippedCount |-> 0]

mergeEntries(hist, newEntries) ==
    MergeLoop(newEntries, 1, ExistingIds(hist), ExistingKeys(hist), <<>>, 0)

-----------------------------------------------------------------------------
(* Inputs of updateWithNewKMZFiles.  A file is its name, whether              *)
(* file.arrayBuffer() and parseKMZFile succeed on it, and the GeoData list   *)
(* convertKMZToGeoData returns for it.                                       *)

MaxFiles == 2
MaxExisting == 1
MaxCalls == 2

KmzFile(name, readable, geoData) ==
    [name |-> name, readable |-> readable, geoData |-> geoData]

ShortName == <<"a", ".", "k", "m", "z">>
\* a file name of 23 characters (kmzService.ts, line 255)
LongName == <<"J", "u", "e", "v", "e", "s", " ", "2", " ", "d", "e", " ",
              "O", "c", "t", "u", "b", "r", "e", ".", "k", "m", "z">>
BadName == <<"U+20AC", ".", "k", "m", "z">>

Visit1 == GeoData(Day1, T0800, Casa, Num(0), Num(0))
Visit2 == GeoData(Day1, T0905, Parque, Num(30), Num(0))
\* a feature without a time in its name and without a Point geometry
Bare == GeoData(Day1, <<>>, <<>>, NULL, NULL)

\* a GeoData with no date, no time and no coordinates
Malformed == GeoData(<<>>, <<>>, <<>>, NULL, NULL)

GeoDataLists == { <<Visit1>>, <<Visit1, Visit1>>, <<Visit1, Visit2>>, <<Bare, Visit2>> }

KmzFiles ==
    {KmzFile(n, TRUE, g) : n \in {ShortName, LongName}, g \in GeoDataLists}
        \cup {KmzFile(ShortName, FALSE, <<>>), KmzFile(BadName, TRUE, <<Visit1>>)}

FileNames == {ShortName, LongName, BadName}
GeoDatas == {Visit1, Visit2, Bare, Malformed}

\* generateUniqueId on every file name and GeoData of the model, worked out
\* once: whether btoa throws, and the id when it does not
UniqueIds ==
    [n \in FileNames, g \in GeoDatas |->
        [throws |-> BtoaThrows(IdKey(n, g)), id |-> generateUniqueId(n, g)]]

\* an id as App.tsx assigns it (line 244): an ISO timestamp and a random
\* number, which has "-", ":" and "." and so is never an id of generateUniqueId
AppId == <<64>>

ExistingEntries ==
    { HistoryEntry(AppId, Visit1),
      HistoryEntry(UniqueIds[ShortName, Visit2].id, Visit2),
      HistoryEntry(UniqueIds[LongName, Visit2].id, Visit2) }

-----------------------------------------------------------------------------
(* updateWithNewKMZFiles as a state machine: one step per file of the loop, *)
(* then the return.                                                          *)

\* lines 440-445: the entries made of one file
FileEntries(file) ==
    [k \in 1..Len(file.geoData) |->
        HistoryEntry(UniqueIds[file.name, file.geoData[k]].id, file.geoData[k])]

\* the try block of lines 423-456 throws: the file cannot be read or parsed,
\* or btoa throws on one of its keys
FileThrows(file) ==
    \/ ~file.readable
    \/ \E k \in 1..Len(file.geoData) : UniqueIds[file.name, file.geoData[k]].throws

\* lines 411-420
NewResult(hist) ==
    [added |-> 0, skipped |-> 0, errors |-> <<>>,
     totalBefore |-> Len(hist), totalAfter |-> Len(hist)]

InitUpdate ==
    /\ newKMZFiles \in SeqsUpTo(KmzFiles, MaxFiles)
    /\ existingHistory \in SeqsUpTo(ExistingEntries, MaxExisting)
    /\ upc = "loop"
    /\ fileIndex = 1
    /\ updatedHistory = existingHistory
    /\ processedEntries = <<>>
    /\ updateResult = NewResult(existingHistory)
    /\ calls = 1
    /\ PlacesIdle
    /\ DedupIdle
    /\ LoadIdle
    /\ BackupIdle

\* lines 423-454: one file, the try block runs to its end
ProcessFile ==
    /\ upc = "loop"
    /\ fileIndex <= Len(newKMZFiles)
    /\ ~FileThrows(newKMZFiles[fileIndex])
    /\ LET merged == mergeEntries(updatedHistory, FileEntries(newKMZFiles[fileIndex]))
       IN  /\ processedEntries' = processedEntries \o merged.newEntries
           /\ updateResult' = [updateResult EXCEPT
                                 !.added = @ + Len(merged.newEntries),
                                 !.skipped = @ + merged.skippedCount]
    /\ fileIndex' = fileIndex + 1
    /\ UNCHANGED <<newKMZFiles, existingHistory, upc, updatedHistory, calls>>
    /\ UNCHANGED notUpdateVars

\* lines 456-460 with the failed file counted as skipped
FileError_CountsSkipped ==
    /\ upc = "loop"
    /\ fileIndex <= Len(newKMZFiles)
    /\ FileThrows(newKMZFiles[fileIndex])
    /\ updateResult' = [updateResult EXCEPT
                          !.errors = Append(@, newKMZFiles[fileIndex].name),
                          !.skipped = @ + 1]
    /\ fileIndex' = fileIndex + 1
    /\ UNCHANGED <<newKMZFiles, existingHistory, upc, updatedHistory,
                   processedEntries, calls>>
    /\ UNCHANGED notUpdateVars

\* lines 456-460 with the loop left at the first failure
FileError_Aborts ==
    /\ upc = "loop"
    /\ fileIndex <= Len(newKMZFiles)
    /\ FileThrows(newKMZFiles[fileIndex])
    /\ updateResult' = [updateResult EXCEPT
                          !.errors = Append(@, newKMZFiles[fileIndex].name)]
    /\ fileIndex' = Len(newKMZFiles) + 1
    /\ UNCHANGED <<newKMZFiles, existingHistory, upc, updatedHistory,
                   processedEntries, calls>>
    /\ UNCHANGED notUpdateVars

\* lines 456-460: one file, the catch block
FileError ==
    /\ upc = "loop"
    /\ fileIndex <= Len(newKMZFiles)
    /\ FileThrows(newKMZFiles[fileIndex])
    /\ updateResult' = [updateResult EXCEPT
                          !.errors = Append(@, newKMZFiles[fileIndex].name)]
    /\ fileIndex' = fileIndex + 1
    /\ UNCHANGED <<newKMZFiles, existingHistory, upc, updatedHistory,
                   processedEntries, calls>>
    /\ UNCHANGED notUpdateVars

\* lines 463-467 returning the new entries alone
ReturnUpdate_OnlyNew ==
    /\ upc = "loop"
    /\ fileIndex > Len(newKMZFiles)
    /\ updatedHistory' = processedEntries
    /\ updateResult' = [updateResult EXCEPT !.totalAfter = Len(processedEntries)]
    /\ upc' = "returned"
    /\ UNCHANGED <<newKMZFiles, existingHistory, fileIndex, processedEntries, calls>>
    /\ UNCHANGED notUpdateVars

\* lines 419 and 463-467 with updatedHistory the existingHistory array itself
\* and not a copy of it
ReturnUpdate_NoCopy ==
    /\ upc = "loop"
    /\ fileIndex > Len(newKMZFiles)
    /\ updatedHistory' = updatedHistory \o processedEntries
    /\ existingHistory' = existingHistory \o processedEntries
    /\ updateResult' = [updateResult EXCEPT
                          !.totalAfter = Len(updatedHistory) + Len(processedEntries)]
    /\ upc' = "returned"
    /\ UNCHANGED <<newKMZFiles, fileIndex, processedEntries, calls>>
    /\ UNCHANGED notUpdateVars

\* lines 463-467
ReturnUpdate ==
    /\ upc = "loop"
    /\ fileIndex > Len(newKMZFiles)
    /\ updatedHistory' = updatedHistory \o processedEntries
    /\ updateResult' = [updateResult EXCEPT
                          !.totalAfter = Len(updatedHistory) + Len(processedEntries)]
    /\ upc' = "returned"
    /\ UNCHANGED <<newKMZFiles, existingHistory, fileIndex, processedEntries, calls>>
    /\ UNCHANGED notUpdateVars

\* the caller keeps updatedHistory as its history (FIREBASE_SETUP.md, line
\* 806) and the same files are uploaded once more
UploadAgain ==
    /\ upc = "returned"
    /\ calls < MaxCalls
    /\ existingHistory' = updatedHistory
    /\ upc' = "loop"
    /\ fileIndex' = 1
    /\ processedEntries' = <<>>
    /\ updateResult' = NewResult(updatedHistory)
    /\ calls' = calls + 1
    /\ UNCHANGED <<newKMZFiles, updatedHistory>>
    /\ UNCHANGED notUpdateVars

NextUpdate ==
    \/ ProcessFile
    \/ FileError
    \/ ReturnUpdate
    \/ UploadAgain

SpecUpdate == InitUpdate /\ [][NextUpdate]_vars

-----------------------------------------------------------------------------
(* generateUniqueId and mergeEntries as functions of their arguments: the   *)
(* id of one candidate is computed, then the candidate is merged into a     *)
(* history.  The arguments range over the parameter types (GeoData.date and *)
(* GeoData.time are strings, the coordinates numbers or null).              *)

\* histories with an entry of the application (App.tsx) that has the data of
\* a candidate, and entries of earlier KMZ uploads
DedupEntries ==
    ExistingEntries \cup {HistoryEntry(AppId, Malformed), HistoryEntry(AppId, Bare)}

InitDedup ==
    /\ argFileName \in FileNames
    /\ argGeoData \in {Malformed, Bare, Visit1}
    /\ mergeHistory \in SeqsUpTo(DedupEntries, MaxExisting)
    /\ dpc = "id"
    /\ uniqueId = <<>>
    /\ mergeResult = [newEntries |-> <<>>, skippedCount |-> 0]
    /\ PlacesIdle
    /\ UpdateIdle
    /\ LoadIdle
    /\ BackupIdle

\* lines 473-477: the id is returned
GenerateId ==
    /\ dpc = "id"
    /\ ~UniqueIds[argFileName, argGeoData].throws
    /\ uniqueId' = UniqueIds[argFileName, argGeoData].id
    /\ dpc' = "merge"
    /\ UNCHANGED <<argFileName, argGeoData, mergeHistory, mergeResult>>
    /\ UNCHANGED notDedupVars

\* lines 473-477: btoa throws InvalidCharacterError
GenerateIdThrows ==
    /\ dpc = "id"
    /\ UniqueIds[argFileName, argGeoData].throws
    /\ dpc' = "raised"
    /\ UNCHANGED <<argFileName, argGeoData, mergeHistory, uniqueId, mergeResult>>
    /\ UNCHANGED notDedupVars

\* lines 482-508 on the one candidate
MergeCandidate ==
    /\ dpc = "merge"
    /\ mergeResult' = mergeEntries(mergeHistory, <<HistoryEntry(uniqueId, argGeoData)>>)
    /\ dpc' = "done"
    /\ UNCHANGED <<argFileName, argGeoData, mergeHistory, uniqueId>>
    /\ UNCHANGED notDedupVars

NextDedup ==
    \/ GenerateId
    \/ GenerateIdThrows
    \/ MergeCandidate

SpecDedup == InitDedup /\ [][NextDedup]_vars

-----------------------------------------------------------------------------
(* AutoLoadService.loadFromFirebaseStorage (services/autoLoadService.ts).    *)
(* A run is one call; scheduleDailyLoad starts a run at every tick of its    *)
(* interval whether or not an earlier run has returned, so runs overlap.     *)
(* JavaScript runs a call without interruption from one await to the next:   *)
(* each action is one such stretch of one run, ending at a call to Storage,  *)
(* to the network or to Firestore that succeeds or fails.  The collections   *)
(* are kept as counts of documents: processedFiles[f] documents of           *)
(* processed_files name file f, locations[f][k] documents of locations hold  *)
(* point k of file f.                                                        *)

\* listAll(kmzFolderRef).items: the files of kmz-files/ and their points
fileList ==
    << KmzFile(ShortName, TRUE, <<Visit1, Visit2>>),
       KmzFile(LongName, TRUE, <<Visit1>>) >>

\* lines 21-27
NewLoadResult ==
    [success |-> FALSE, loadedFiles |-> 0, skippedFiles |-> 0,
     errors |-> <<>>, processedFiles |-> <<>>]

\* a run: its position, the file and the point it is at, and its result; an
\* error message is kept as the index of the file it names, 0 for the run
Run(at, file, point, res) == [pc |-> at, file |-> file, point |-> point, result |-> res]

InitLoad ==
    /\ db \in BOOLEAN
    /\ processedFiles = [f \in 1..Len(fileList) |-> 0]
    /\ locations = [f \in 1..Len(fileList) |->
                       [k \in 1..Len(fileList[f].geoData) |-> 0]]
    /\ runs = [r \in 1..MaxRuns |-> Run("idle", 1, 1, NewLoadResult)]
    /\ failures = 0
    /\ PlacesIdle
    /\ UpdateIdle
    /\ DedupIdle
    /\ BackupIdle

\* a call to Storage, the network or Firestore may fail
MayFail == failures < MaxFailures

\* the for loop of line 43 goes on to the next file, or lines 92-93 return
NextFile(run, res) ==
    IF run.file < Len(fileList)
    THEN Run("check", run.file + 1, 1, res)
    ELSE Run("returned", run.file, 1, [res EXCEPT !.success = TRUE])

\* lines 244-246 (or a direct call), lines 21-36 with db set
StartLoad(r) ==
    /\ runs[r].pc = "idle"
    /\ r > 1 => runs[r - 1].pc # "idle"
    /\ db
    /\ runs' = [runs EXCEPT ![r] = Run("list", 1, 1, NewLoadResult)]
    /\ UNCHANGED <<db, processedFiles, locations, failures>>
    /\ UNCHANGED notLoadVars

\* lines 30-33: Firebase is not configured
StartWithoutDb(r) ==
    /\ runs[r].pc = "idle"
    /\ r > 1 => runs[r - 1].pc # "idle"
    /\ ~db
    /\ runs' = [runs EXCEPT ![r] =
                    Run("returned", 1, 1, [NewLoadResult EXCEPT !.errors = <<0>>])]
    /\ UNCHANGED <<db, processedFiles, locations, failures>>
    /\ UNCHANGED notLoadVars

\* line 39: listAll returns
ListFiles(r) ==
    /\ runs[r].pc = "list"
    /\ runs' = [runs EXCEPT ![r] =
                    IF Len(fileList) = 0
                    THEN Run("returned", 1, 1, [@.result EXCEPT !.success = TRUE])
                    ELSE Run("check", 1, 1, @.result)]
    /\ UNCHANGED <<db, processedFiles, locations, failures>>
    /\ UNCHANGED notLoadVars

\* line 39 throws, lines 95-100
ListFails(r) ==
    /\ runs[r].pc = "list"
    /\ MayFail
    /\ failures' = failures + 1
    /\ runs' = [runs EXCEPT ![r] =
                    Run("returned", 1, 1, [@.result EXCEPT !.errors = Append(@, 0)])]
    /\ UNCHANGED <<db, processedFiles, locations>>
    /\ UNCHANGED notLoadVars

\* lines 46-53 and 131-141: the query of processed_files returns
CheckProcessed(r) ==
    /\ runs[r].pc = "check"
    /\ runs' = [runs EXCEPT ![r] =
                    IF processedFiles[@.file] > 0
                    THEN NextFile(@, [@.result EXCEPT !.skippedFiles = @ + 1])
                    ELSE Run("download", @.file, 1, @.result)]
    /\ UNCHANGED <<db, processedFiles, locations, failures>>
    /\ UNCHANGED notLoadVars

\* lines 143-146: the query throws and isFileAlreadyProcessed returns false
CheckFails(r) ==
    /\ runs[r].pc = "check"
    /\ MayFail
    /\ failures' = failures + 1
    /\ runs' = [runs EXCEPT ![r] = Run("download", @.file, 1, @.result)]
    /\ UNCHANGED <<db, processedFiles, locations>>
    /\ UNCHANGED notLoadVars

\* lines 56-70: the file is downloaded, parsed and converted
Download(r) ==
    /\ runs[r].pc = "download"
    /\ runs' = [runs EXCEPT ![r] =
                    IF Len(fileList[@.file].geoData) = 0
                    THEN Run("mark", @.file, 1, @.result)
                    ELSE Run("save", @.file, 1, @.result)]
    /\ UNCHANGED <<db, processedFiles, locations, failures>>
    /\ UNCHANGED notLoadVars

\* one of lines 57-69 throws, lines 85-89
DownloadFails(r) ==
    /\ runs[r].pc = "download"
    /\ MayFail
    /\ failures' = failures + 1
    /\ runs' = [runs EXCEPT ![r] =
                    NextFile(@, [@.result EXCEPT !.errors = Append(@, runs[r].file)])]
    /\ UNCHANGED <<db, processedFiles, locations>>
    /\ UNCHANGED notLoadVars

\* lines 73-75 and 170-183, one iteration: addDoc writes the point
SavePoint(r) ==
    /\ runs[r].pc = "save"
    /\ locations' = [locations EXCEPT ![runs[r].file][runs[r].point] = @ + 1]
    /\ runs' = [runs EXCEPT ![r] =
                    IF @.point < Len(fileList[@.file].geoData)
                    THEN Run("save", @.file, @.point + 1, @.result)
                    ELSE Run("mark", @.file, 1, @.result)]
    /\ UNCHANGED <<db, processedFiles, failures>>
    /\ UNCHANGED notLoadVars

\* lines 185-188: addDoc throws, saveGeoDataToFirestore throws again, lines 85-89
SaveFails(r) ==
    /\ runs[r].pc = "save"
    /\ MayFail
    /\ failures' = failures + 1
    /\ runs' = [runs EXCEPT ![r] =
                    NextFile(@, [@.result EXCEPT !.errors = Append(@, runs[r].file)])]
    /\ UNCHANGED <<db, processedFiles, locations>>
    /\ UNCHANGED notLoadVars

\* the result after lines 80-81
Loaded(run) ==
    [run.result EXCEPT !.loadedFiles = @ + 1,
                       !.processedFiles = Append(@, fileList[run.file].name)]

\* lines 78-81 and 152-160: addDoc writes the processed_files document
MarkProcessed(r) ==
    /\ runs[r].pc = "mark"
    /\ processedFiles' = [processedFiles EXCEPT ![runs[r].file] = @ + 1]
    /\ runs' = [runs EXCEPT ![r] = NextFile(@, Loaded(@))]
    /\ UNCHANGED <<db, locations, failures>>
    /\ UNCHANGED notLoadVars

\* lines 162-164: addDoc throws and markFileAsProcessed returns; lines 80-81
MarkFails(r) ==
    /\ runs[r].pc = "mark"
    /\ MayFail
    /\ failures' = failures + 1
    /\ runs' = [runs EXCEPT ![r] = NextFile(@, Loaded(@))]
    /\ UNCHANGED <<db, processedFiles, locations>>
    /\ UNCHANGED notLoadVars

NextLoad ==
    \E r \in 1..MaxRuns :
        \/ StartLoad(r)
        \/ StartWithoutDb(r)
        \/ ListFiles(r)
        \/ ListFails(r)
        \/ CheckProcessed(r)
        \/ CheckFails(r)
        \/ Download(r)
        \/ DownloadFails(r)
        \/ SavePoint(r)
        \/ SaveFails(r)
        \/ MarkProcessed(r)
        \/ MarkFails(r)

SpecLoad == InitLoad /\ [][NextLoad]_vars

-----------------------------------------------------------------------------
(* UpdateService.createBackup, restoreFromBackup, listBackups and           *)
(* cleanupOldBackups (lines 513-589).  The clock counts milliseconds.  A    *)
(* backup id `backup_${Date.now()}` is kept as its number of milliseconds,  *)
(* and so is the timestamp (toISOString has the same resolution).           *)
(* localStorage is the set of its items [key, value] under the prefix       *)
(* kmz_backup_, no key twice; a value is the JSON text, kept as the object  *)
(* it denotes.                                                              *)

maxBackups == 5

\* JSON.parse(JSON.stringify(x)) for a number or null: a finite number and
\* null come back as they are
JsonNumber(x) == IF x = NULL THEN NULL ELSE Rat(x.num, x.den)

\* JSON.parse(JSON.stringify(e)) for a history entry: an object with the
\* same own properties
JsonEntry(e) ==
    [id |-> e.id,
     data |-> [date |-> e.data.date, time |-> e.data.time,
               location |-> e.data.location,
               latitude |-> JsonNumber(e.data.latitude),
               longitude |-> JsonNumber(e.data.longitude)]]

\* lines 514-521: the object that backupJson denotes
BackupData(timestamp, hist) ==
    [timestamp |-> timestamp, totalEntries |-> Len(hist),
     data |-> [i \in 1..Len(hist) |-> JsonEntry(hist[i])]]

\* localStorage.setItem: an item with the key is replaced
SetItem(storage, key, value) ==
    {item \in storage : item.key # key} \cup {[key |-> key, value |-> value]}

\* lines 552-575: the backups of the storage
listBackups(storage) ==
    {[id |-> item.key, timestamp |-> item.value.timestamp,
      totalEntries |-> item.value.totalEntries] : item \in storage}

\* lines 580-589: what may be left after the cleanup.  The backups are
\* sorted by descending timestamp and those after the first maxBackups are
\* removed; backups of equal timestamp keep the order of localStorage.key(i),
\* which the implementation chooses.
cleanupOldBackups(storage) ==
    IF Cardinality(storage) > maxBackups
    THEN {kept \in SUBSET storage :
            /\ Cardinality(kept) = maxBackups
            /\ \A k \in kept : \A r \in storage \ kept :
                  k.value.timestamp >= r.value.timestamp}
    ELSE {storage}

\* lines 536-547: the history of a backup, null (here <<"null">>) without one
restoreFromBackup(storage, backupId) ==
    IF \E item \in storage : item.key = backupId
    THEN (CHOOSE item \in storage : item.key = backupId).value.data
    ELSE <<"null">>

\* the histories that are backed up
BackupHistories ==
    { <<HistoryEntry(AppId, Visit1)>>,
      <<HistoryEntry(AppId, Visit1), HistoryEntry(AppId, Bare)>> }

InitBackup ==
    /\ localStorage = {}
    /\ clock = 0
    /\ backupCalls = 0
    /\ lastBackup = [id |-> 0, history |-> <<>>]
    /\ PlacesIdle
    /\ UpdateIdle
    /\ DedupIdle
    /\ LoadIdle

\* time passes between two calls
Tick ==
    /\ clock < MaxClock
    /\ clock' = clock + 1
    /\ UNCHANGED <<localStorage, backupCalls, lastBackup>>
    /\ UNCHANGED notBackupVars

\* lines 513-531: one call.  The clock is read at line 515 and again at line
\* 522, and may have moved on by one millisecond in between.
createBackup(hist, elapsed) ==
    /\ backupCalls < MaxBackupCalls
    /\ clock + elapsed <= MaxClock
    /\ LET timestamp == clock
           backupId == clock + elapsed
       IN  /\ localStorage' \in cleanupOldBackups(
                  SetItem(localStorage, backupId, BackupData(timestamp, hist)))
           /\ lastBackup' = [id |-> backupId, history |-> hist]
           /\ clock' = clock + elapsed
    /\ backupCalls' = backupCalls + 1
    /\ UNCHANGED notBackupVars

NextBackup ==
    \/ Tick
    \/ \E hist \in BackupHistories : \E elapsed \in {0, 1} : createBackup(hist, elapsed)

SpecBackup == InitBackup /\ [][NextBackup]_vars

-----------------------------------------------------------------------------
(* The two engines one after the other: the application keeps the history   *)
(* that updateWithNewKMZFiles returns and shows its most visited places.    *)

\* App.tsx, lines 198-203: getMostVisitedPlaces is called on the history,
\* with limit 3, exclusion switched on and excludeTopN 2
ShowPlaces ==
    /\ upc = "returned"
    /\ pc = "idle"
    /\ history' = updatedHistory
    /\ pc' = "group"
    /\ UNCHANGED <<limit, excludeHomeGeofence, excludeTopN, cursor, placeMap,
                   sortedPlaces, placesToExclude, geofenceCenters, result>>
    /\ UNCHANGED notPlaceVars

\* getMostVisitedPlaces is synchronous: from its call to its return the
\* application takes no other step
NextEngines ==
    \/ pc \in {"idle", "done"} /\ NextUpdate
    \/ ShowPlaces
    \/ NextPlaces

SpecEngines == InitUpdate /\ [][NextEngines]_vars

-----------------------------------------------------------------------------
(* Properties of updateWithNewKMZFiles and mergeEntries *)

\* no two entries of the list have the same (date, time, latitude, longitude)
NoDuplicateKeys(hist) ==
    \A i, j \in 1..Len(hist) :
        i < j => EntryKey(hist[i].data) # EntryKey(hist[j].data)

\* the candidates of a file that match no entry of hist by id or by key, in
\* input order, and the number of the others
Unmatched(hist, file) ==
    SelectSeq(FileEntries(file),
        LAMBDA e : ~(\/ \E i \in 1..Len(hist) : hist[i].id = e.id
                     \/ \E i \in 1..Len(hist) :
                           /\ hist[i].data.date = e.data.date
                           /\ hist[i].data.time = e.data.time
                           /\ hist[i].data.latitude = e.data.latitude
                           /\ hist[i].data.longitude = e.data.longitude))

Matched(hist, file) == Len(file.geoData) - Len(Unmatched(hist, file))

\* over the first n files, leaving out those whose processing throws
RECURSIVE AllUnmatched(_, _, _)
AllUnmatched(hist, files, n) ==
    IF n = 0 THEN <<>>
    ELSE AllUnmatched(hist, files, n - 1)
            \o (IF FileThrows(files[n]) THEN <<>> ELSE Unmatched(hist, files[n]))

RECURSIVE AllMatched(_, _, _)
AllMatched(hist, files, n) ==
    IF n = 0 THEN 0
    ELSE AllMatched(hist, files, n - 1)
            + (IF FileThrows(files[n]) THEN 0 ELSE Matched(hist, files[n]))

\* the number of entries parsed from the files that are processed without error
RECURSIVE ParsedCount(_, _)
ParsedCount(files, n) ==
    IF n = 0 THEN 0
    ELSE ParsedCount(files, n - 1)
            + (IF FileThrows(files[n]) THEN 0 ELSE Len(files[n].geoData))

\* C4: mergeEntries catches duplicates inside one batch: of the candidates of
\* one file with the same (date, time, latitude, longitude) only the first is
\* admitted, the others are counted as skipped.
C4_DuplicatesInsideBatchSkipped ==
    (upc = "returned" /\ Len(newKMZFiles) = 1 /\ ~FileThrows(newKMZFiles[1])) =>
        /\ NoDuplicateKeys(processedEntries)
        /\ (~NoDuplicateKeys(FileEntries(newKMZFiles[1])) => updateResult.skipped >= 1)

\* C5: when the existing history has no two entries with the same (date,
\* time, latitude, longitude), neither has the returned updatedHistory.
C5_UpdatedHistoryHasNoDuplicates ==
    (upc = "returned" /\ NoDuplicateKeys(existingHistory)) =>
        NoDuplicateKeys(updatedHistory)

\* C6: a candidate is skipped if its id is the id of an entry of the existing
\* history or its (date, time, latitude, longitude) is that of an entry of the
\* existing history, and admitted otherwise; the admitted candidates are kept
\* in input order.
C6_SkippedIffMatchesExisting ==
    upc \in {"loop", "returned"} =>
        /\ processedEntries = AllUnmatched(existingHistory, newKMZFiles, fileIndex - 1)
        /\ updateResult.added = Len(processedEntries)
        /\ updateResult.skipped = AllMatched(existingHistory, newKMZFiles, fileIndex - 1)

\* one call in which a candidate is skipped for its id alone, another for its
\* key alone, and a third is admitted
C6_Witness ==
    /\ upc = "returned"
    /\ updateResult.added >= 1
    /\ \E f \in 1..Len(newKMZFiles) :
         \E k \in 1..Len(FileEntries(newKMZFiles[f])) :
            LET e == FileEntries(newKMZFiles[f])[k]
            IN  /\ e.id \in ExistingIds(existingHistory)
                /\ EntryKey(e.data) \notin ExistingKeys(existingHistory)
    /\ \E f \in 1..Len(newKMZFiles) :
         \E k \in 1..Len(FileEntries(newKMZFiles[f])) :
            LET e == FileEntries(newKMZFiles[f])[k]
            IN  /\ e.id \notin ExistingIds(existingHistory)
                /\ EntryKey(e.data) \in ExistingKeys(existingHistory)

\* C7: merging the same batch again into the history that the first merge
\* returned admits nothing, skips the whole batch and returns that history.
C7_SecondMergeAdmitsNothing ==
    (upc = "returned" /\ calls >= 2) =>
        /\ updateResult.added = 0
        /\ updateResult.skipped = ParsedCount(newKMZFiles, Len(newKMZFiles))
        /\ updatedHistory = existingHistory
        /\ updateResult.totalAfter = updateResult.totalBefore

\* the first merge admitted entries of two files, the second skipped them
C7_Witness ==
    /\ upc = "returned"
    /\ calls = 2
    /\ Len(newKMZFiles) = 2
    /\ updateResult.errors = <<>>
    /\ Len(existingHistory) >= MaxExisting + 2
    /\ updateResult.skipped >= 2
    /\ updatedHistory = existingHistory

\* C12: the existing history is never lost or altered: while the files are
\* processed updatedHistory is the existing history, and the returned
\* updatedHistory is the existing history, entry for entry and in its order,
\* followed by the admitted candidates in file order and, within a file, in
\* input order; totalBefore and totalAfter are the two lengths.
C12_ExistingHistoryPreserved ==
    /\ upc = "loop" => updatedHistory = existingHistory
    /\ upc = "returned" =>
          /\ Len(updatedHistory) >= Len(existingHistory)
          /\ SubSeq(updatedHistory, 1, Len(existingHistory)) = existingHistory
          /\ SubSeq(updatedHistory, Len(existingHistory) + 1, Len(updatedHistory))
                = AllUnmatched(existingHistory, newKMZFiles, Len(newKMZFiles))
          /\ updateResult.totalBefore = Len(existingHistory)
          /\ updateResult.totalAfter = Len(updatedHistory)

\* a non-empty history, two files that each had a candidate admitted, and a
\* candidate skipped
C12_Witness ==
    /\ upc = "returned"
    /\ calls = 1
    /\ Len(existingHistory) >= 1
    /\ Len(newKMZFiles) = 2
    /\ updateResult.errors = <<>>
    /\ updateResult.skipped >= 1
    /\ Len(Unmatched(existingHistory, newKMZFiles[1])) >= 1
    /\ Len(Unmatched(existingHistory, newKMZFiles[2])) >= 1
    /\ Len(updatedHistory) >= Len(existingHistory) + 2

\* an entry of the history has the id, or the date, time, latitude and
\* longitude, of the candidate
MatchesExisting(hist, id, data) ==
    \E i \in 1..Len(hist) :
        \/ hist[i].id = id
        \/ /\ hist[i].data.date = data.date
           /\ hist[i].data.time = data.time
           /\ hist[i].data.latitude = data.latitude
           /\ hist[i].data.longitude = data.longitude

\* C14: a candidate with empty date, empty time and null coordinates never
\* makes the dedup functions raise: generateUniqueId returns an id for it, and
\* mergeEntries admits it unless its id or its key is that of an entry of the
\* history, in which case it is skipped.
C14_MalformedCandidateNeverRaises ==
    argGeoData = Malformed =>
        /\ dpc # "raised"
        /\ dpc = "done" =>
              IF MatchesExisting(mergeHistory, uniqueId, argGeoData)
              THEN mergeResult = [newEntries |-> <<>>, skippedCount |-> 1]
              ELSE mergeResult = [newEntries |-> <<HistoryEntry(uniqueId, argGeoData)>>,
                                  skippedCount |-> 0]

\* the two observations have the same date, time, latitude and longitude
SameTuple(a, b) ==
    /\ a.date = b.date
    /\ a.time = b.time
    /\ a.latitude = b.latitude
    /\ a.longitude = b.longitude

\* C26: a candidate is skipped only when an entry of the existing history is
\* the same observation, that is has the same (date, time, latitude,
\* longitude), on its own or together with the file name its id was made of;
\* and two candidates of one file that differ in date, time or coordinates
\* never get the same id.
C26_SkippedOnlyForSameObservation ==
    upc \in {"loop", "returned"} =>
        \A f \in 1..(fileIndex - 1) :
            ~FileThrows(newKMZFiles[f]) =>
                LET candidates == FileEntries(newKMZFiles[f])
                    Admitted(e) == \E i \in 1..Len(processedEntries) : processedEntries[i] = e
                IN  /\ \A k \in 1..Len(candidates) :
                          ~Admitted(candidates[k]) =>
                              \E i \in 1..Len(existingHistory) :
                                  SameTuple(existingHistory[i].data, candidates[k].data)
                    /\ \A k1, k2 \in 1..Len(candidates) :
                          ~SameTuple(candidates[k1].data, candidates[k2].data) =>
                              candidates[k1].id # candidates[k2].id

\* C27: the report is consistent: totalBefore is the length of
\* existingHistory, added + skipped is the number of entries parsed from the
\* files processed without error, and totalAfter = totalBefore + added is the
\* length of updatedHistory.
C27_ReportIsConsistent ==
    /\ upc \in {"loop", "returned"} =>
          /\ updateResult.totalBefore = Len(existingHistory)
          /\ updateResult.added + updateResult.skipped
                = ParsedCount(newKMZFiles, fileIndex - 1)
    /\ upc = "returned" =>
          /\ fileIndex - 1 = Len(newKMZFiles)
          /\ updateResult.totalAfter = updateResult.totalBefore + updateResult.added
          /\ updateResult.totalAfter = Len(updatedHistory)

\* a call on a non-empty history with a file that failed and a file of which
\* one entry was added and one skipped
C27_Witness ==
    /\ upc = "returned"
    /\ Len(existingHistory) >= 1
    /\ Len(updateResult.errors) = 1
    /\ updateResult.added >= 1
    /\ updateResult.skipped >= 1
    /\ updateResult.totalAfter > updateResult.totalBefore

\* the files of a list whose processing does not throw, and the names of
\* those whose processing throws
Sound(files) == SelectSeq(files, LAMBDA file : ~FileThrows(file))
Failing(files) ==
    LET failing == SelectSeq(files, FileThrows)
    IN  [k \in 1..Len(failing) |-> failing[k].name]

\* lines 422-461 for the first n files of a list in which no file throws:
\* the entries admitted and the two counts
RECURSIVE MergeFiles(_, _, _)
MergeFiles(hist, files, n) ==
    IF n = 0 THEN [entries |-> <<>>, added |-> 0, skipped |-> 0]
    ELSE LET before == MergeFiles(hist, files, n - 1)
             merged == mergeEntries(hist, FileEntries(files[n]))
         IN  [entries |-> before.entries \o merged.newEntries,
              added |-> before.added + Len(merged.newEntries),
              skipped |-> before.skipped + merged.skippedCount]

\* C28: a failure while reading, parsing or making the ids of a file is
\* isolated: one error message is recorded for each failing file and no more,
\* and the entries admitted and the counts added and skipped are those of the
\* call on the list of files without the failing ones.
C28_FileFailureIsolated ==
    upc \in {"loop", "returned"} =>
        LET done == SubSeq(newKMZFiles, 1, fileIndex - 1)
            alone == MergeFiles(existingHistory, Sound(done), Len(Sound(done)))
        IN  /\ updateResult.errors = Failing(done)
            /\ processedEntries = alone.entries
            /\ updateResult.added = alone.added
            /\ updateResult.skipped = alone.skipped
            /\ upc = "returned" =>
                  /\ Len(done) = Len(newKMZFiles)
                  /\ updatedHistory = existingHistory \o alone.entries

\* the first file failed and an entry of the second was added
C28_Witness ==
    /\ upc = "returned"
    /\ Len(newKMZFiles) = 2
    /\ FileThrows(newKMZFiles[1])
    /\ ~FileThrows(newKMZFiles[2])
    /\ updateResult.errors = <<newKMZFiles[1].name>>
    /\ updateResult.added >= 1
    /\ updatedHistory # existingHistory

\* C30: neither engine modifies its inputs: no step of getMostVisitedPlaces
\* changes the history it was called on, no step of a call of
\* updateWithNewKMZFiles changes existingHistory or the files, and the merge
\* of a file leaves the history it is given as it was.
C30_InputsNotModified ==
    [][/\ pc # "idle" => history' = history
       /\ calls' = calls =>
             /\ existingHistory' = existingHistory
             /\ newKMZFiles' = newKMZFiles
       /\ (upc = "loop" /\ upc' = "loop") => updatedHistory' = updatedHistory]_vars

\* an update that added entries to a non-empty history has returned, and the
\* most visited places of the returned history have been computed
C30_Witness ==
    /\ upc = "returned"
    /\ Len(existingHistory) >= 1
    /\ updateResult.added >= 1
    /\ updatedHistory # existingHistory
    /\ pc = "done"
    /\ history = updatedHistory
    /\ result # <<>>

-----------------------------------------------------------------------------
(* Properties of createBackup *)

BackupIds(storage) == {item.key : item \in storage}

\* C25: after any sequence of createBackup calls at most 5 backups are
\* stored; every call adds one new backup (its id is not that of a backup
\* stored before the call) from which restoreFromBackup returns the history
\* that was backed up; and the backups that a call removes are the oldest by
\* timestamp.
C25_BackupsKeptAndRetrievable ==
    [][backupCalls' # backupCalls =>
          /\ Cardinality(localStorage') <= maxBackups
          /\ lastBackup'.id \notin BackupIds(localStorage)
          /\ restoreFromBackup(localStorage', lastBackup'.id) = lastBackup'.history
          /\ \A removed \in localStorage : \A kept \in localStorage' :
                removed.key \notin BackupIds(localStorage') =>
                    removed.value.timestamp <= kept.value.timestamp]_vars

-----------------------------------------------------------------------------
(* Properties of AutoLoadService *)

\* C16: across the runs of loadFromFirebaseStorage, failed and overlapping
\* ones included, a file that processed_files names is skipped (no run is
\* downloading it, saving its points or marking it), and every point of
\* every storage file is written to locations at most once.
C16_ProcessedFileWrittenOnce ==
    /\ \A r \in 1..Len(runs) :
          runs[r].pc \in {"download", "save", "mark"} =>
              processedFiles[runs[r].file] = 0
    /\ \A f \in 1..Len(locations) : \A k \in 1..Len(locations[f]) :
          locations[f][k] <= 1

====
